---- MODULE Spec2Model ----
(***************************************************************************)
(* reminder-bot, four components over one state:                           *)
(*  - Spec: the approval workflow engine (src/src/handlers/action.rs); the *)
(*    single bus consumer takes one ActionEvent at a time and runs         *)
(*    ActionEngine::handle_event on it.  Every await of the handler (a     *)
(*    collaborator call, a lock acquisition) ends a step, so the states    *)
(*    between the steps of a running handler are states of the model.      *)
(*  - SpecBus, FairSpecBus: the event bus (src/src/events/queue.rs), its   *)
(*    producers and its consumer loop (src/src/events/worker.rs).          *)
(*  - SpecRouter: route_notify (src/src/service/notify_flow.rs) as         *)
(*    BotHandler::handle_notify calls it (src/src/handlers/discord.rs).    *)
(*  - SpecTick: the notification loop                                      *)
(*    (src/src/tasks/notification_loop.rs).                                *)
(* Each specification moves the variables of its component and leaves the  *)
(* others as Init sets them.                                               *)
(*                                                                         *)
(* Strings are sequences of one-character strings, so that trim, split and *)
(* format! are computed rather than assumed.  Option<T> is a sequence of   *)
(* length 0 (None) or 1 (Some).  Times are whole hours for the engine and  *)
(* the notification loop, seconds for the router.                          *)
(***************************************************************************)
EXTENDS Integers, Sequences, FiniteSets, TLC

\* ------------------------------------------------------------------ bounds
\* Number of Actions the engine creates in one run (one uuid each).
MaxActions == 2
\* EventBus::new(buffer): the capacity of the channel
Buffer == 2
\* emit calls one producer makes
MaxEmits == 2
\* /notify commands the request handler receives
MaxRequests == 2
\* how many seconds around the session window the router's clock visits
MaxLate == 1
\* notifications created while the notification loop runs
MaxNotifications == 2
\* The handle_event calls that may be under way at once on one engine.
MaxOverlap == 2

\* ------------------------------------------------------- program constants
Hour == 1
Day == 24
\* Duration::minutes(5), in seconds (the unit of the router's clock)
SessionWindow == 300

\* ------------------------------------------------------------ input domains
Users == {<<"@", "1">>, <<"@", "2">>}
\* Who asks for notifications, and where; the other user only answers prompts.
Requesters == {[user_id |-> <<"@", "1">>, channel_id |-> <<"7">>]}
Texts == {<<"r">>}
\* A blank correction note and one with text between blanks.
Contexts == {<<" ">>, <<" ", "x", " ">>}
MsgIds == {<<"m">>}

None == <<>>
Some(x) == <<x>>
\* The elements of a sequence.
Range(s) == {s[i] : i \in DOMAIN s}

\* Ids of the Actions: the uuids drawn by NotifyRequested, in drawing order.
ActionIds == 1..MaxActions

\* ------------------------------------------------------------- pure helpers
\* str::trim
RECURSIVE TrimStart(_)
TrimStart(s) == IF s # <<>> /\ Head(s) = " " THEN TrimStart(Tail(s)) ELSE s

RECURSIVE TrimEnd(_)
TrimEnd(s) ==
    IF s # <<>> /\ s[Len(s)] = " " THEN TrimEnd(SubSeq(s, 1, Len(s) - 1)) ELSE s

trim(s) == TrimEnd(TrimStart(s))

\* str::split(","): the pieces between the commas, empty pieces included.
RECURSIVE SplitFrom(_, _, _)
SplitFrom(s, i, piece) ==
    IF i > Len(s) THEN <<piece>>
    ELSE IF s[i] = "," THEN <<piece>> \o SplitFrom(s, i + 1, <<>>)
    ELSE SplitFrom(s, i + 1, Append(piece, s[i]))

split(s) == SplitFrom(s, 1, <<>>)

\* Faulty variant of checked_sub_signed: an underflow gives the earliest time.
checked_sub_signed_saturating(t, d) == IF t - d < 0 THEN Some(0) ELSE Some(t - d)

\* DateTime::checked_sub_signed: None when the result is not representable
\* (the earliest representable time is hour 0 of the model).
checked_sub_signed(t, d) == IF t - d < 0 THEN None ELSE Some(t - d)

\* Faulty variant of sort: the list is left in the order of the pushes.
sort_keeps_order(ts) == ts

\* Vec::sort on a list of at most two times.
sort(ts) == IF Len(ts) = 2 /\ ts[1] > ts[2] THEN <<ts[2], ts[1]>> ELSE ts

\* ----------------------------------------------------- notification store
\* create_reminder / create_notification: the two due-times of a target time.
notification_times(expires_at) ==
    sort(checked_sub_signed(expires_at, Hour) \o checked_sub_signed(expires_at, Day))

\* The entity create_notification builds.
Notification(id, content, notify_users, expires_at, channel) ==
    [id |-> id,
     content |-> content,
     notify |-> split(notify_users),
     notification_times |-> notification_times(expires_at),
     channel |-> channel]

\* HashMap::insert on the notification store.
db_insert(d, n) == (n.id :> n) @@ d

\* Faulty variant of create_notification: recipients and channel are passed swapped.
create_notification_swapped(d, id, content, notify_users, expires_at, channel) ==
    db_insert(d, Notification(id, content, channel, expires_at, notify_users))

\* NotificationService::create up to the save: the store after db.insert.
create_notification(d, id, content, notify_users, expires_at, channel) ==
    db_insert(d, Notification(id, content, notify_users, expires_at, channel))

\* --------------------------------------------------------------- actions' data
Statuses == {"Pending", "AwaitingApproval", "Approved", "Rejected", "Completed", "Failed"}

\* now + Duration::minutes(5): the clock counts whole hours, so an instant
\* off the hour is <<hours, minutes>>.
ApprovalMinutes == 5
plus_minutes(now, minutes) == <<now, minutes>>

\* NotificationDraft built by NotifyRequested from the parsed NLU answer.
NotificationDraft(ev, ai, now) ==
    [user_id |-> ev.user_id,
     channel_id |-> ev.channel_id,
     content |-> ai.content,
     time |-> ai.time,
     original_text |-> ev.text,
     extra_context |-> None,
     expires_at |-> plus_minutes(now, ApprovalMinutes),
     message_id |-> None]

\* Action built by NotifyRequested.
NewAction(id, ev, ai, now) ==
    [id |-> id,
     action_type |-> "CreateNotification",
     status |-> "AwaitingApproval",
     user_id |-> ev.user_id,
     channel_id |-> ev.channel_id,
     payload |-> Some(NotificationDraft(ev, ai, now))]

\* Action::notification_draft
notification_draft(a) == a.payload

\* Faulty variant of insert: a Failed Action is not kept.
insert_unless_failed(s, a) == IF a.status = "Failed" THEN s ELSE (a.id :> a) @@ s

\* ActionStore::insert
insert(s, a) == (a.id :> a) @@ s

\* ActionStore::get(..).cloned()
get(s, id) == IF id \in DOMAIN s THEN Some(s[id]) ELSE None

\* Faulty variants of guard: the owner is not checked; the status is not checked; only
\* a Completed Action is refused; a Rejected Action can be taken up again.
guard_any_user(snapshot, user_id) ==
    /\ snapshot # None
    /\ snapshot[1].status = "AwaitingApproval"

guard_any_status(snapshot, user_id) ==
    /\ snapshot # None
    /\ snapshot[1].user_id = user_id

guard_unless_completed(snapshot, user_id) ==
    /\ snapshot # None
    /\ snapshot[1].user_id = user_id
    /\ snapshot[1].status # "Completed"

guard_reopens_rejected(snapshot, user_id) ==
    /\ snapshot # None
    /\ snapshot[1].user_id = user_id
    /\ snapshot[1].status \in {"AwaitingApproval", "Rejected"}

\* The guard of ApprovalConfirmed, ApprovalCanceled and ContextSubmitted on
\* the snapshot: TRUE when the handler goes on.
guard(snapshot, user_id) ==
    /\ snapshot # None
    /\ ~(snapshot[1].user_id # user_id \/ snapshot[1].status # "AwaitingApproval")

\* Faulty variant of from_str: a missing time is defaulted instead of refused.
from_str_default_time(body) ==
    IF "content" \in DOMAIN body
    THEN Some([content |-> body.content,
               time |-> IF "time" \in DOMAIN body THEN body.time ELSE 50])
    ELSE None

\* serde_json::from_str::<AINotification>: Some when the body is a JSON object
\* with the fields content and time.
from_str(body) ==
    IF {"content", "time"} \subseteq DOMAIN body
    THEN Some([content |-> body.content, time |-> body.time])
    ELSE None

\* What generate_prompt can return: an error, or a body that is valid JSON of
\* the expected shape, JSON lacking a field, or no JSON at all.  A time that
\* parses as RFC 3339 lies more than a day after the earliest DateTime.
NluBodies ==
    {[content |-> <<"a">>, time |-> 30], [content |-> <<"b">>, time |-> 50]}
        \cup {[content |-> <<"a">>]}
        \cup {[raw |-> <<"?">>]}

NluOutcomes == {[ok |-> FALSE, err |-> <<"e">>]} \cup [ok : {TRUE}, body : NluBodies]

\* The prompt ContextSubmitted sends to the NLU collaborator.
combined_prompt(original_text, context) ==
    IF trim(context) # <<>>
    THEN <<"Original request: ">> \o original_text \o <<"\nCorrection note: ">> \o trim(context)
    ELSE original_text

\* Faulty variant of corrected_draft: the note is recorded, content and time are not.
corrected_draft_keeps_old(draft, context, updated) ==
    [draft EXCEPT
        !.extra_context = IF trim(context) # <<>> THEN Some(trim(context)) ELSE @]

\* Faulty variant of corrected_draft: the note is recorded as it was typed.
corrected_draft_untrimmed(draft, context, updated) ==
    [draft EXCEPT
        !.extra_context = IF trim(context) # <<>> THEN Some(context) ELSE @,
        !.content = updated.content,
        !.time = updated.time]

\* Faulty variant of corrected_draft: the prompt sent to the NLU collaborator
\* is kept as the request's text.
corrected_draft_rebased(draft, context, updated) ==
    [draft EXCEPT
        !.extra_context = IF trim(context) # <<>> THEN Some(trim(context)) ELSE @,
        !.content = updated.content,
        !.time = updated.time,
        !.original_text = combined_prompt(@, context)]

\* The draft after a successful correction.
corrected_draft(draft, context, updated) ==
    [draft EXCEPT
        !.extra_context = IF trim(context) # <<>> THEN Some(trim(context)) ELSE @,
        !.content = updated.content,
        !.time = updated.time]

\* DiscordApprovalPromptService::prompt on success records the message sent.
prompted(a, m) ==
    IF a.payload = None THEN a
    ELSE [a EXCEPT !.payload = Some([a.payload[1] EXCEPT !.message_id = Some(m)])]

\* Faulty variants of confirmed_status: a failed create leaves the Action open for
\* another try; a successful one leaves the staging status.
confirmed_status_retry(result_is_ok) ==
    IF result_is_ok THEN "Completed" ELSE "AwaitingApproval"

confirmed_status_staged(result_is_ok) == IF result_is_ok THEN "Approved" ELSE "Failed"

\* The status ApprovalConfirmed stores, from the result of the create.
confirmed_status(result_is_ok) == IF result_is_ok THEN "Completed" ELSE "Failed"

\* Faulty variant of new_action_id: the id is not fresh.
first_action_id(s) == 1

\* The uuid NotifyRequested draws: one the store does not hold.
new_action_id(s) == Cardinality(DOMAIN s) + 1

\* ------------------------------------------------------------------- events
NotifyRequested ==
    {[type |-> "NotifyRequested", text |-> t, user_id |-> r.user_id, channel_id |-> r.channel_id] :
        t \in Texts, r \in Requesters}
ApprovalConfirmed == [type : {"ApprovalConfirmed"}, action_id : ActionIds, user_id : Users]
ApprovalCanceled == [type : {"ApprovalCanceled"}, action_id : ActionIds, user_id : Users]
ContextSubmitted ==
    [type : {"ContextSubmitted"}, action_id : ActionIds, user_id : Users, context : Contexts]
ActionEvent == NotifyRequested \cup ApprovalConfirmed \cup ApprovalCanceled \cup ContextSubmitted

\* ------------------------------------------------------------ the event bus
\* The tasks that hold a clone of the EventBus; each emits for one user.
Producers == Users

\* The k-th event producer p emits.
Emitted(p, k) ==
    [type |-> "NotifyRequested", text |-> [i \in 1..k |-> "r"], user_id |-> p,
     channel_id |-> <<"7">>]

\* Faulty variant of send: a full channel takes the event and loses it.
send_dropping(q, receiver, event) ==
    IF receiver = "closed" THEN [poll |-> "Err", queue |-> q]
    ELSE IF Len(q) < Buffer THEN [poll |-> "Ok", queue |-> Append(q, event)]
    ELSE [poll |-> "Ok", queue |-> q]

\* Faulty variant of send: a closed channel makes the sender wait.
send_waits_for_receiver(q, receiver, event) ==
    IF receiver = "open" /\ Len(q) < Buffer
    THEN [poll |-> "Ok", queue |-> Append(q, event)]
    ELSE [poll |-> "Pending", queue |-> q]

\* self.tx.send(event).await, polled once on a channel of capacity Buffer:
\* Err when the Receiver is gone, Ok when a slot is free, Pending when full.
send(q, receiver, event) ==
    IF receiver = "closed" THEN [poll |-> "Err", queue |-> q]
    ELSE IF Len(q) < Buffer THEN [poll |-> "Ok", queue |-> Append(q, event)]
    ELSE [poll |-> "Pending", queue |-> q]

\* Faulty variant of recv: the newest event is taken first.
recv_newest(q, senders) ==
    IF q # <<>>
    THEN [poll |-> "Some", event |-> Some(q[Len(q)]), queue |-> SubSeq(q, 1, Len(q) - 1)]
    ELSE IF senders = {} THEN [poll |-> "None", event |-> None, queue |-> q]
    ELSE [poll |-> "Pending", event |-> None, queue |-> q]

\* Faulty variant of recv: None as soon as every Sender is dropped.
recv_closed_first(q, senders) ==
    IF senders = {} THEN [poll |-> "None", event |-> None, queue |-> q]
    ELSE IF q # <<>> THEN [poll |-> "Some", event |-> Some(Head(q)), queue |-> Tail(q)]
    ELSE [poll |-> "Pending", event |-> None, queue |-> q]

\* rx.recv().await, polled once: the oldest buffered event; None when the
\* buffer is empty and every Sender is dropped; Pending otherwise.
recv(q, senders) ==
    IF q # <<>> THEN [poll |-> "Some", event |-> Some(Head(q)), queue |-> Tail(q)]
    ELSE IF senders = {} THEN [poll |-> "None", event |-> None, queue |-> q]
    ELSE [poll |-> "Pending", event |-> None, queue |-> q]

\* -------------------------------------------------------- the session router
\* SessionKey = (user_id, channel_id)
SessionKeys == {<<u, <<"7">>>> : u \in Users}

\* The text argument of a /notify command.
Arguments == {<<"c">>, <<"t">>, <<" ">>}

\* The instants the router's clock visits, in seconds: the start, and the
\* seconds around five minutes later.
Instants == {0} \cup {SessionWindow + i : i \in -MaxLate..MaxLate}

Intent == {"Notification", "Unknown"}

\* router.route(text): the classifier is pluggable; whatever it decides, its
\* normalized text is the trimmed input (route_intent, parse_router_payload).
route(text) == [intent : Intent, normalized_text : {trim(text)}]

\* Faulty variant of expired: a session exactly five minutes old is dropped.
expired_at_window(session, now) == now - session.last_prompt_at >= SessionWindow

\* now - session.last_prompt_at > Duration::minutes(5)
expired(session, now) == now - session.last_prompt_at > SessionWindow

\* sessions.remove(&session_key) when the stored session has expired
remove_expired(sessions_map, session_key, now) ==
    IF session_key \in DOMAIN sessions_map /\ expired(sessions_map[session_key], now)
    THEN [k \in DOMAIN sessions_map \ {session_key} |-> sessions_map[k]]
    ELSE sessions_map

\* Faulty variant of combined_text: every live session is merged.
combined_text_any_state(sessions_map, session_key, text, now) ==
    IF session_key \notin DOMAIN sessions_map THEN text
    ELSE IF expired(sessions_map[session_key], now) THEN text
    ELSE sessions_map[session_key].original_text \o <<" ">> \o text

\* The text route_notify gives the classifier: format!("{} {}", original_text,
\* text) for a stored, unexpired session in state Unknown, else the text.
combined_text(sessions_map, session_key, text, now) ==
    IF session_key \notin DOMAIN sessions_map THEN text
    ELSE IF expired(sessions_map[session_key], now) THEN text
    ELSE IF sessions_map[session_key].state = "Unknown"
    THEN sessions_map[session_key].original_text \o <<" ">> \o text
    ELSE text

\* Faulty variant of PendingSession: the new text is kept, not the merged one.
PendingSession_new_text(intent, combined, text, now) ==
    [state |-> IF intent = "Notification" THEN "PendingNotification" ELSE "Unknown",
     original_text |-> text, last_prompt_at |-> now]

\* The session route_notify stores for the classifier's intent.
PendingSession(intent, combined, text, now) ==
    [state |-> IF intent = "Notification" THEN "PendingNotification" ELSE "Unknown",
     original_text |-> combined, last_prompt_at |-> now]

\* The NotifyDecision route_notify returns.
NotifyDecision(routing) ==
    IF routing.intent = "Notification"
    THEN [type |-> "EmitNotify", normalized_text |-> routing.normalized_text]
    ELSE [type |-> "NeedClarification"]

\* route_notify(router, sessions, session_key, text, now), the classifier
\* having answered `routing` for the combined text.
route_notify(sessions_map, session_key, text, now, routing) ==
    LET combined == combined_text(sessions_map, session_key, text, now)
        kept == remove_expired(sessions_map, session_key, now)
    IN  [sessions |-> (session_key :> PendingSession(routing.intent, combined, text, now))
                      @@ kept,
         decision |-> NotifyDecision(routing)]

\* Faulty variant of published: a clarification request is published too.
published_always(decision, text, user_id, channel_id) ==
    Some([type |-> "NotifyRequested",
          text |-> IF decision.type = "EmitNotify" THEN decision.normalized_text ELSE text,
          user_id |-> user_id, channel_id |-> channel_id])

\* What handle_notify gives event_bus.emit for a decision (Option).
published(decision, text, user_id, channel_id) ==
    IF decision.type = "EmitNotify"
    THEN Some([type |-> "NotifyRequested", text |-> decision.normalized_text,
               user_id |-> user_id, channel_id |-> channel_id])
    ELSE None

\* ------------------------------------------------- the notification loop
\* The target times of the notifications created: the times of the drafts.
Targets == {b.time : b \in {x \in NluBodies : "time" \in DOMAIN x}}

\* The instants the scheduler's clock visits, in hours: the start, every
\* notification time and the hour after it.
Hours == {0} \cup UNION {{t, t + Hour} : t \in UNION {Range(notification_times(e)) : e \in Targets}}

\* The answers of the message formatter: a body, a blank body, or an error.
Formatted == {[ok |-> TRUE, body |-> <<"b">>], [ok |-> TRUE, body |-> <<" ">>], [ok |-> FALSE]}

\* Faulty variant of build_message: without the fallback.
build_message_no_fallback(notification, answer) ==
    IF answer.ok THEN answer.body ELSE <<>>

\* NotificationMessageService::build_message: the formatter's body unless it
\* failed or is blank, else "Notification: {content} at {event_time}".
build_message(notification, answer) ==
    LET event_time == notification.notification_times[Len(notification.notification_times)]
    IN  IF answer.ok /\ trim(answer.body) # <<>> THEN answer.body
        ELSE <<"Notification: ", notification.content, " at ", event_time>>

\* Faulty variant of granted: the lock is given although it is held.
granted_always(mutex) == TRUE

\* Mutex::lock().await returns once the mutex is free.
granted(mutex) == mutex = "free"

\* Faulty variant of due: the time is not compared with now.
due_whenever(notification_time, now) == TRUE

\* *notification_time < now
due(notification_time, now) == notification_time < now

\* Faulty variant of pop: every time that is due is removed at once.
pop_all_due(times, now) == SelectSeq(times, LAMBDA t : ~due(t, now))

\* notification.notification_times.remove(0)
pop(times, now) == Tail(times)

\* Faulty variant of remove_all: the marked notifications stay.
remove_none(d, ids) == d

\* db.remove(id) for every id of notifications_expired
remove_all(d, ids) == [n \in DOMAIN d \ Range(ids) |-> d[n]]

\* ------------------------------------------- overlapping handle_event calls
Invocations == 1..MaxOverlap

\* An invocation that has not been made or has returned, and one under way.
Idle == [pc |-> "idle", event |-> None, action |-> None, db_guard |-> FALSE]
Returned_from(i) == [i EXCEPT !.pc = "returned", !.action = None, !.db_guard = FALSE]

\* The Action the invocations are about: built by a NotifyRequested whose
\* prompt succeeded, awaiting approval.
Awaited ==
    prompted(NewAction(1, CHOOSE e \in NotifyRequested : TRUE,
                       from_str(CHOOSE b \in NluBodies : from_str(b) # None)[1], 0),
             CHOOSE m \in MsgIds : TRUE)

\* The Action store's guard that ended with its block is kept instead.
guard_kept(holder) == holder

\* The end of the block `{ let store = self.store.lock().await; .. }`: the
\* guard is dropped and the Action store's lock is free (0).
guard_dropped(holder) == 0

\* The uuid of the Action a NotifyRequested invocation builds: fresh, so one
\* for each invocation and none the store holds.
pending_id(t) == Awaited.id + t

\* The guarded events for that Action.
AwaitedEvents ==
    {e \in ApprovalConfirmed \cup ApprovalCanceled \cup ContextSubmitted : e.action_id = Awaited.id}

\* -------------------------------------------------------------------- state
VARIABLES
    store,      \* ActionStore.actions: action id -> Action
    db,         \* the notification store DB<Notification>: id -> Notification
    dbLock,     \* holder of the notification store's mutex
    pc,         \* where the consumer is in handle_event
    cur,        \* the event being handled (Option)
    action,     \* the handler's local copy of the Action (Option)
    calls,      \* the collaborator calls of the handler invocation, with results
    pre,        \* history: store, db and clock as they were when the event was received
    origin,     \* history: notification id -> the Action it was created for
    corr,       \* history: action id -> the last successful correction (Option)
    \* the event bus (src/src/events/queue.rs) and its consumer loop
    queue,      \* the channel's buffer: the events sent and not yet received
    tx,         \* the producers that hold a live EventBus handle (a Sender clone)
    rx,         \* "open" while the Receiver exists, "closed" once it is dropped
    pending,    \* producer -> the event of its suspended emit (Option)
    issued,     \* producer -> the number of emit calls it has made
    wpc,        \* where the consumer loop is: "recv", "handle", "exited", "aborted"
    wcur,       \* the event the consumer is handling (Option)
    enq,        \* history: the events the channel accepted, in order
    handled,    \* history: the events whose handler has returned, in order
    ret,        \* history: the emit calls that have returned
    backlog,    \* history: the events unhandled when the last Sender went (Option)
    \* the session router (src/src/service/notify_flow.rs) and handle_notify
    sessions,   \* the session map: SessionKey -> PendingSession
    clock,      \* Utc::now() of the request handlers, in seconds
    handler,    \* SessionKey -> the handle_notify invocation under way (Option)
    requests,   \* the number of /notify commands received
    routed,     \* history: the last route_notify call (Option)
    decisions,  \* history: the events of the EmitNotify decisions, in order
    emitted,    \* history: the events given to event_bus.emit, in order
    \* the notification loop (src/src/tasks/notification_loop.rs)
    utc,        \* Utc::now(), in hours
    tpc,        \* where the loop is: "sleep" or, inside notification_tick, "scan"
    tnow,       \* the now the tick under way was given
    todo,       \* the notifications db.values_mut() has yet to yield
    notifications_expired,  \* the ids marked for removal
    made,       \* the number of notifications created
    sent,       \* history: notification id -> the times messages were sent for
    tickSent,   \* history: notification id -> the messages of the last tick,
                \* each with the formatter's answer it was built from
    tickPre,    \* history: the store as the last tick found it
    tend,       \* history: how the last tick ended
    disk,       \* the notification store as save_db last wrote it
    sending,    \* the message send_message has delivered and the tick has yet to
                \* pop the time of (Option)
    \* handle_event called by several tasks on one engine
    storeLock,  \* holder of the Action store's mutex: an invocation, or 0 when free
    inv         \* invocation -> where it is in handle_event, its event and its Action

engineVars == <<store, db, dbLock, pc, cur, action, calls, pre, origin, corr>>
busVars == <<queue, tx, rx, pending, issued, wpc, wcur, enq, handled, ret, backlog>>
routerVars == <<sessions, clock, handler, requests, routed, decisions, emitted>>
tickVars == <<utc, tpc, tnow, todo, notifications_expired, made, sent, tickSent, tickPre, tend,
             disk, sending>>
overlapVars == <<storeLock, inv>>
beyondEngine == <<busVars, routerVars, tickVars, overlapVars>>
beyondCreate == <<busVars, routerVars, utc, tpc, tnow, todo, notifications_expired, sent,
                  tickSent, tickPre, tend, sending, overlapVars>>
vars == <<engineVars, busVars, routerVars, tickVars, overlapVars>>

\* The state after construction, but for the Action store.
InitBeyondStore ==
    /\ db = <<>>
    /\ dbLock = "free"
    /\ pc = "recv"
    /\ cur = None
    /\ action = None
    /\ calls = <<>>
    /\ pre = [store |-> store, db |-> <<>>, now |-> 0]
    /\ origin = <<>>
    /\ corr = [id \in ActionIds |-> None]
    /\ queue = <<>>
    /\ tx = Producers
    /\ rx = "open"
    /\ pending = [p \in Producers |-> None]
    /\ issued = [p \in Producers |-> 0]
    /\ wpc = "recv"
    /\ wcur = None
    /\ enq = <<>>
    /\ handled = <<>>
    /\ ret = {}
    /\ backlog = None
    /\ sessions = <<>>
    /\ clock = 0
    /\ handler = [k \in SessionKeys |-> None]
    /\ requests = 0
    /\ routed = None
    /\ decisions = <<>>
    /\ emitted = <<>>
    /\ utc = 0
    /\ tpc = "sleep"
    /\ tnow = 0
    /\ todo = {}
    /\ notifications_expired = <<>>
    /\ made = 0
    /\ sent = [n \in 1..MaxNotifications |-> <<>>]
    /\ tickSent = [n \in 1..MaxNotifications |-> <<>>]
    /\ tickPre = <<>>
    /\ tend = "none"
    /\ disk = <<>>
    /\ sending = None
    /\ storeLock = 0
    /\ inv = [t \in Invocations |-> Idle]

Init ==
    /\ store = <<>>
    /\ InitBeyondStore

\* Collaborator call records.
GeneratePromptCall(prompt, mode, returned) ==
    [call |-> "generate_prompt", prompt |-> prompt, mode |-> mode, returned |-> returned]
PromptCall(a, ok) == [call |-> "prompt", action_id |-> a.id, ok |-> ok]
CreateCall(content, notify_users, expires_at, channel, ok) ==
    [call |-> "create", content |-> content, notify_users |-> notify_users,
     expires_at |-> expires_at, channel |-> channel, ok |-> ok]
UpdateStatusCall(a, message) == [call |-> "update_status", action_id |-> a.id, message |-> message]
UpdateStatusMessageCall(channel_id, user_id, message) ==
    [call |-> "update_status_message", channel_id |-> channel_id,
     user_id |-> user_id, message |-> message]

\* handle_event returns.
Return == pc' = "done"

\* The uuid create_notification draws: one the store never held.
new_notification_id(o) == Cardinality(DOMAIN o) + 1

\* ------------------------------------------------------ the consumer loop
\* rx.recv() hands the next event to handle_event.  The bus is abstracted to
\* "any event may come next"; at most MaxActions requests are admitted.
Recv ==
    /\ pc = "recv"
    /\ \E e \in ActionEvent :
        /\ e.type = "NotifyRequested" => new_action_id(store) <= MaxActions
        /\ cur' = Some(e)
    /\ pc' = "start"
    /\ action' = None
    /\ calls' = <<>>
    /\ pre' = [store |-> store, db |-> db, now |-> utc]
    /\ UNCHANGED <<store, db, dbLock, origin, corr, beyondEngine>>

\* handle_event(event).await is over: the loop goes back to rx.recv().
Loop ==
    /\ pc = "done"
    /\ pc' = "recv"
    /\ cur' = None
    /\ action' = None
    /\ calls' = <<>>
    /\ pre' = [store |-> store, db |-> db, now |-> utc]
    /\ UNCHANGED <<store, db, dbLock, origin, corr, beyondEngine>>

\* --------------------------------------------------------- NotifyRequested
\* generate_prompt(text, "notification") and the parse of its answer.
NotifyRequested_generate_prompt ==
    /\ pc = "start"
    /\ cur[1].type = "NotifyRequested"
    /\ \E r \in NluOutcomes :
        LET ev == cur[1]
            asked == Append(calls, GeneratePromptCall(ev.text, "notification", r))
        IN  IF ~r.ok
            THEN /\ calls' = Append(asked, UpdateStatusMessageCall(ev.channel_id, ev.user_id,
                                <<"Failed to call OpenAI for notification: ">> \o r.err))
                 /\ action' = action
                 /\ Return
            ELSE IF from_str(r.body) = None
            THEN /\ calls' = Append(asked, UpdateStatusMessageCall(ev.channel_id, ev.user_id,
                                <<"Failed to parse notification JSON: ">>))
                 /\ action' = action
                 /\ Return
            ELSE /\ calls' = asked
                 /\ action' = Some(NewAction(new_action_id(store), ev, from_str(r.body)[1], utc))
                 /\ pc' = "notify_prompt"
    /\ UNCHANGED <<store, db, dbLock, cur, pre, origin, corr, beyondEngine>>

\* approval.prompt(&mut action): on failure the Action is marked Failed.
NotifyRequested_prompt ==
    /\ pc = "notify_prompt"
    /\ \E ok \in BOOLEAN, m \in MsgIds :
        /\ action' = IF ok THEN Some(prompted(action[1], m))
                     ELSE Some([action[1] EXCEPT !.status = "Failed"])
        /\ calls' = Append(calls, PromptCall(action[1], ok))
    /\ pc' = "notify_insert"
    /\ UNCHANGED <<store, db, dbLock, cur, pre, origin, corr, beyondEngine>>

\* store.lock(); store.insert(action)
NotifyRequested_insert ==
    /\ pc = "notify_insert"
    /\ store' = insert(store, action[1])
    /\ Return
    /\ UNCHANGED <<db, dbLock, cur, action, calls, pre, origin, corr, beyondEngine>>

\* ------------------------------------------------------- ApprovalConfirmed
\* The snapshot under the store lock, the guard, the staging status Approved
\* and the branch for an Action without a draft.
ApprovalConfirmed_snapshot ==
    /\ pc = "start"
    /\ cur[1].type = "ApprovalConfirmed"
    /\ LET ev == cur[1]
           action_snapshot == get(store, ev.action_id)
       IN  IF ~guard(action_snapshot, ev.user_id)
           THEN /\ Return
                /\ UNCHANGED <<action, calls>>
           ELSE LET a == [action_snapshot[1] EXCEPT !.status = "Approved"]
                IN  IF notification_draft(a) = None
                    THEN /\ action' = Some([a EXCEPT !.status = "Failed"])
                         /\ calls' = Append(calls, UpdateStatusMessageCall(a.channel_id,
                                        a.user_id, <<"Failed to persist notification.">>))
                         /\ pc' = "confirm_insert_no_draft"
                    ELSE /\ action' = Some(a)
                         /\ pc' = "confirm_create"
                         /\ UNCHANGED calls
    /\ UNCHANGED <<store, db, dbLock, cur, pre, origin, corr, beyondEngine>>

\* store.insert(action); return  (the Action had no notification draft; no
\* Action the engine builds is without one, so the step is part of
\* NextSeeded only)
ApprovalConfirmed_insert_no_draft ==
    /\ pc = "confirm_insert_no_draft"
    /\ store' = insert(store, action[1])
    /\ Return
    /\ UNCHANGED <<db, dbLock, cur, action, calls, pre, origin, corr, beyondEngine>>

\* notification_db.lock(); NotificationService::create(..): the entry is
\* inserted, then save_db succeeds or fails; the status and the status
\* message follow the result.  The lock stays held.
ApprovalConfirmed_create ==
    /\ pc = "confirm_create"
    /\ granted(dbLock)
    /\ \E saved \in BOOLEAN :
        LET a == action[1]
            draft == notification_draft(a)[1]
            id == new_notification_id(origin)
            done == [a EXCEPT !.status = confirmed_status(saved)]
        IN  /\ db' = create_notification(db, id, draft.content, a.user_id, draft.time,
                                         a.channel_id)
            /\ origin' = (id :> a.id) @@ origin
            /\ action' = Some(done)
            /\ calls' = Append(
                    Append(calls, CreateCall(draft.content, a.user_id, draft.time,
                                             a.channel_id, saved)),
                    IF saved
                    THEN UpdateStatusCall(done, <<"Confirmed! I'll notify you: ",
                                                  draft.content, " at ", draft.time>>)
                    ELSE UpdateStatusMessageCall(a.channel_id, a.user_id,
                                                 <<"Failed to persist notification.">>))
    /\ dbLock' = "engine"
    /\ pc' = "confirm_insert"
    /\ UNCHANGED <<store, cur, pre, corr, beyondEngine>>

\* store.lock(); store.insert(action); both guards are dropped.
ApprovalConfirmed_insert ==
    /\ pc = "confirm_insert"
    /\ store' = insert(store, action[1])
    /\ dbLock' = "free"
    /\ Return
    /\ UNCHANGED <<db, cur, action, calls, pre, origin, corr, beyondEngine>>

\* -------------------------------------------------------- ApprovalCanceled
ApprovalCanceled_snapshot ==
    /\ pc = "start"
    /\ cur[1].type = "ApprovalCanceled"
    /\ LET ev == cur[1]
           action_snapshot == get(store, ev.action_id)
       IN  IF ~guard(action_snapshot, ev.user_id)
           THEN /\ Return
                /\ UNCHANGED <<action, calls>>
           ELSE LET a == [action_snapshot[1] EXCEPT !.status = "Rejected"]
                IN  /\ action' = Some(a)
                    /\ calls' = Append(calls,
                            UpdateStatusCall(a, <<"Canceled notification request.">>))
                    /\ pc' = "cancel_insert"
    /\ UNCHANGED <<store, db, dbLock, cur, pre, origin, corr, beyondEngine>>

ApprovalCanceled_insert ==
    /\ pc = "cancel_insert"
    /\ store' = insert(store, action[1])
    /\ Return
    /\ UNCHANGED <<db, dbLock, cur, action, calls, pre, origin, corr, beyondEngine>>

\* -------------------------------------------------------- ContextSubmitted
ContextSubmitted_snapshot ==
    /\ pc = "start"
    /\ cur[1].type = "ContextSubmitted"
    /\ LET ev == cur[1]
           action_snapshot == get(store, ev.action_id)
       IN  IF ~guard(action_snapshot, ev.user_id)
           THEN /\ Return
                /\ UNCHANGED action
           ELSE IF notification_draft(action_snapshot[1]) = None
           THEN /\ Return
                /\ UNCHANGED action
           ELSE /\ action' = action_snapshot
                /\ pc' = "context_generate_prompt"
    /\ UNCHANGED <<store, db, dbLock, cur, calls, pre, origin, corr, beyondEngine>>

\* generate_prompt(combined_prompt, "notification_correction"); on a parsed
\* answer the draft is overwritten, otherwise the handler returns.
ContextSubmitted_generate_prompt ==
    /\ pc = "context_generate_prompt"
    /\ \E r \in NluOutcomes :
        LET ev == cur[1]
            a == action[1]
            draft == notification_draft(a)[1]
            refreshed == IF r.ok THEN from_str(r.body) ELSE None
        IN  /\ calls' = Append(calls, GeneratePromptCall(
                            combined_prompt(draft.original_text, ev.context),
                            "notification_correction", r))
            /\ IF refreshed # None
               THEN /\ action' = Some([a EXCEPT !.payload =
                                    Some(corrected_draft(draft, ev.context, refreshed[1]))])
                    /\ corr' = [corr EXCEPT ![a.id] = refreshed]
                    /\ pc' = "context_prompt"
                  ELSE /\ Return
                    /\ UNCHANGED <<action, corr>>
    /\ UNCHANGED <<store, db, dbLock, cur, pre, origin, beyondEngine>>

\* let _ = approval.prompt(&mut action)
ContextSubmitted_prompt ==
    /\ pc = "context_prompt"
    /\ \E ok \in BOOLEAN, m \in MsgIds :
        /\ action' = IF ok THEN Some(prompted(action[1], m)) ELSE action
        /\ calls' = Append(calls, PromptCall(action[1], ok))
    /\ pc' = "context_insert"
    /\ UNCHANGED <<store, db, dbLock, cur, pre, origin, corr, beyondEngine>>

ContextSubmitted_insert ==
    /\ pc = "context_insert"
    /\ store' = insert(store, action[1])
    /\ Return
    /\ UNCHANGED <<db, dbLock, cur, action, calls, pre, origin, corr, beyondEngine>>

\* ---------------------------------------------------------- specification
Next ==
    \/ Recv
    \/ Loop
    \/ NotifyRequested_generate_prompt
    \/ NotifyRequested_prompt
    \/ NotifyRequested_insert
    \/ ApprovalConfirmed_snapshot
    \/ ApprovalConfirmed_create
    \/ ApprovalConfirmed_insert
    \/ ApprovalCanceled_snapshot
    \/ ApprovalCanceled_insert
    \/ ContextSubmitted_snapshot
    \/ ContextSubmitted_generate_prompt
    \/ ContextSubmitted_prompt
    \/ ContextSubmitted_insert

Spec == Init /\ [][Next]_vars

\* ------------------------------------------- a store with a payload-less Action
\* An Action put into the shared store by a holder of the store other than
\* the engine (ActionStore::insert is public, and Action.payload is an
\* Option): it awaits approval and has no notification draft.
Seeded ==
    [id |-> 1,
     action_type |-> "CreateNotification",
     status |-> "AwaitingApproval",
     user_id |-> <<"@", "1">>,
     channel_id |-> <<"7">>,
     payload |-> None]

InitSeeded ==
    /\ store = insert(<<>>, Seeded)
    /\ InitBeyondStore

NextSeeded ==
    \/ Next
    \/ ApprovalConfirmed_insert_no_draft

SpecSeeded == InitSeeded /\ [][NextSeeded]_vars

\* ------------------------------------------------- the bus and its consumer
\* What an emit call leaves behind when it returns.
Returned(call, poll, was_suspended) ==
    [event |-> call.event, closed_at_call |-> call.closed_at_call,
     full_at_call |-> call.full_at_call, suspended |-> was_suspended,
     result |-> poll, closed_at_return |-> rx = "closed"]

\* The first poll and every later poll of tx.send(event).await.
Poll(p, call, was_suspended) ==
    LET r == send(queue, rx, call.event)
    IN  /\ queue' = r.queue
        /\ enq' = IF r.queue # queue THEN Append(enq, call.event) ELSE enq
        /\ pending' = [pending EXCEPT ![p] = IF r.poll = "Pending" THEN Some(call) ELSE None]
        /\ ret' = IF r.poll = "Pending" THEN ret
                  ELSE ret \cup {Returned(call, r.poll, was_suspended)}

\* EventBus::emit(event) is called by a producer that is not inside an emit.
emit(p) ==
    /\ p \in tx
    /\ pending[p] = None
    /\ issued[p] < MaxEmits
    /\ issued' = [issued EXCEPT ![p] = @ + 1]
    /\ Poll(p, [event |-> Emitted(p, issued[p] + 1), closed_at_call |-> rx = "closed",
                full_at_call |-> Len(queue) >= Buffer], FALSE)
    /\ UNCHANGED <<tx, rx, wpc, wcur, handled>>
    /\ UNCHANGED <<backlog, engineVars, routerVars, tickVars, overlapVars>>

\* A suspended emit is woken: a slot is free or the Receiver is gone.
emit_resume(p) ==
    /\ pending[p] # None
    /\ send(queue, rx, pending[p][1].event).poll # "Pending"
    /\ Poll(p, pending[p][1], TRUE)
    /\ UNCHANGED <<tx, rx, issued, wpc, wcur, handled>>
    /\ UNCHANGED <<backlog, engineVars, routerVars, tickVars, overlapVars>>

\* drop(bus): a producer gives up its handle; it cannot be inside an emit,
\* which borrows the handle.
drop(p) ==
    /\ p \in tx
    /\ pending[p] = None
    /\ tx' = tx \ {p}
    /\ backlog' = IF tx = {p} THEN Some(Len(enq) - Len(handled)) ELSE backlog
    /\ UNCHANGED <<queue, rx, pending, issued, wpc, wcur, enq, handled, ret>>
    /\ UNCHANGED <<engineVars, routerVars, tickVars, overlapVars>>

\* while let Some(event) = rx.recv().await: the loop takes the next event,
\* or leaves and drops the Receiver when recv returns None.
run_event_worker_recv ==
    /\ wpc = "recv"
    /\ LET r == recv(queue, tx)
       IN  /\ r.poll # "Pending"
           /\ queue' = r.queue
           /\ wcur' = r.event
           /\ wpc' = IF r.poll = "Some" THEN "handle" ELSE "exited"
           /\ rx' = IF r.poll = "Some" THEN rx ELSE "closed"
    /\ UNCHANGED <<tx, pending, issued, enq, handled, ret>>
    /\ UNCHANGED <<backlog, engineVars, routerVars, tickVars, overlapVars>>

\* The body of the loop for the received event has run to its end.
run_event_worker_handled ==
    /\ wpc = "handle"
    /\ handled' = Append(handled, wcur[1])
    /\ wcur' = None
    /\ wpc' = "recv"
    /\ UNCHANGED <<queue, tx, rx, pending, issued, enq, ret>>
    /\ UNCHANGED <<backlog, engineVars, routerVars, tickVars, overlapVars>>

\* The consumer task is cancelled at an await (the runtime shuts down): the
\* Receiver is dropped together with what the buffer holds.
run_event_worker_cancelled ==
    /\ wpc \in {"recv", "handle"}
    /\ wpc' = "aborted"
    /\ rx' = "closed"
    /\ queue' = <<>>
    /\ UNCHANGED <<tx, pending, issued, wcur, enq, handled, ret>>
    /\ UNCHANGED <<backlog, engineVars, routerVars, tickVars, overlapVars>>

NextBus ==
    \/ \E p \in Producers : emit(p)
    \/ \E p \in Producers : emit_resume(p)
    \/ \E p \in Producers : drop(p)
    \/ run_event_worker_recv
    \/ run_event_worker_handled
    \/ run_event_worker_cancelled

SpecBus == Init /\ [][NextBus]_vars

\* The runtime polls a spawned task that can make progress: the consumer
\* loop is not starved.
FairSpecBus ==
    SpecBus /\ WF_vars(run_event_worker_recv) /\ WF_vars(run_event_worker_handled)

\* --------------------------------------- the request handler and the router
\* handle_notify starts: the text argument is read; a blank one is answered
\* "Missing `text` argument" and the handler returns; else the user, the
\* channel and Utc::now() are taken.
handle_notify(k) ==
    /\ handler[k] = None
    /\ requests < MaxRequests
    /\ requests' = requests + 1
    /\ \E text \in Arguments :
        handler' = [handler EXCEPT ![k] =
            IF trim(text) = <<>> THEN None
            ELSE Some([pc |-> "route", text |-> text, user_id |-> k[1],
                       channel_id |-> k[2], now |-> clock])]
    /\ UNCHANGED <<sessions, clock, routed, decisions, emitted>>
    /\ UNCHANGED <<engineVars, busVars, tickVars, overlapVars>>

\* self.sessions.lock(); route_notify(..).await; the lock is released.  A
\* NeedClarification is answered and the handler returns.
handle_notify_route(k) ==
    /\ handler[k] # None
    /\ handler[k][1].pc = "route"
    /\ LET h == handler[k][1]
           asked == combined_text(sessions, k, h.text, h.now)
       IN  \E routing \in route(asked) :
            LET r == route_notify(sessions, k, h.text, h.now, routing)
                event == published(r.decision, h.text, h.user_id, h.channel_id)
            IN  /\ sessions' = r.sessions
                /\ routed' = Some([key |-> k, text |-> h.text, now |-> h.now,
                                   before |-> sessions, asked |-> asked,
                                   routing |-> routing, decision |-> r.decision])
                /\ decisions' = IF r.decision.type = "EmitNotify"
                                THEN Append(decisions,
                                       [type |-> "NotifyRequested",
                                        text |-> r.decision.normalized_text,
                                        user_id |-> h.user_id, channel_id |-> h.channel_id])
                                ELSE decisions
                /\ handler' = [handler EXCEPT ![k] =
                        IF event = None THEN None
                        ELSE Some([h EXCEPT !.pc = "emit"] @@ [event |-> event[1]])]
    /\ UNCHANGED <<clock, requests, emitted>>
    /\ UNCHANGED <<engineVars, busVars, tickVars, overlapVars>>

\* self.event_bus.emit(Event::NotifyRequested {..}).await; the command is
\* answered and the handler returns.
handle_notify_emit(k) ==
    /\ handler[k] # None
    /\ handler[k][1].pc = "emit"
    /\ emitted' = Append(emitted, handler[k][1].event)
    /\ handler' = [handler EXCEPT ![k] = None]
    /\ UNCHANGED <<sessions, clock, requests, routed, decisions>>
    /\ UNCHANGED <<engineVars, busVars, tickVars, overlapVars>>

\* Time passes.
pass(t) ==
    /\ t > clock
    /\ clock' = t
    /\ UNCHANGED <<sessions, handler, requests, routed, decisions, emitted>>
    /\ UNCHANGED <<engineVars, busVars, tickVars, overlapVars>>

NextRouter ==
    \/ \E k \in SessionKeys : handle_notify(k)
    \/ \E k \in SessionKeys : handle_notify_route(k)
    \/ \E k \in SessionKeys : handle_notify_emit(k)
    \/ \E t \in Instants : pass(t)

SpecRouter == Init /\ [][NextRouter]_vars

\* ----------------------------------------------------- the notification loop
engineRest == <<store, pc, cur, action, calls, pre, origin, corr>>

\* A confirmed Action's notification is created under the store's lock
\* (NotificationService::create), as the engine does it.
create ==
    /\ granted(dbLock)
    /\ made < MaxNotifications
    /\ made' = made + 1
    /\ \E e \in Targets, saved \in BOOLEAN :
        /\ db' = create_notification(db, made + 1, <<"a">>, <<"@", "1">>, e, <<"7">>)
        /\ disk' = IF saved THEN db' ELSE disk
    /\ UNCHANGED <<dbLock, utc, tpc, tnow, todo, notifications_expired, sent, tickSent,
                   tickPre, tend, sending>>
    /\ UNCHANGED <<engineRest, busVars, routerVars, overlapVars>>

\* The scheduler's clock moves on (a tick under way keeps the now it was
\* given, so the clock is moved between ticks only).
later(t) ==
    /\ tpc = "sleep"
    /\ t > utc
    /\ utc' = t
    /\ UNCHANGED <<db, dbLock, tpc, tnow, todo, notifications_expired, made, sent, tickSent,
                   tickPre, tend, disk, sending>>
    /\ UNCHANGED <<engineRest, busVars, routerVars, overlapVars>>

\* run_notification_loop: after the sleep, db.lock().await and
\* notification_tick(&mut db, .., Utc::now()) starts its scan.
run_notification_loop ==
    /\ tpc = "sleep"
    /\ granted(dbLock)
    /\ dbLock' = "scheduler"
    /\ tickSent' = [n \in 1..MaxNotifications |-> <<>>]
    /\ tnow' = utc
    /\ todo' = DOMAIN db
    /\ notifications_expired' = <<>>
    /\ tickPre' = db
    /\ tend' = "none"
    /\ tpc' = "scan"
    /\ UNCHANGED <<db, utc, made, sent, disk, sending>>
    /\ UNCHANGED <<engineRest, busVars, routerVars, overlapVars>>

\* One turn of `for notification in db.values_mut()`, in the map's order, up
\* to the return of send_message: an empty list is marked; for a due first
\* time the message is built and sent; a failed send returns from the tick
\* at once, the lock being released.
notification_tick_visit(id) ==
    /\ tpc = "scan"
    /\ id \in todo
    /\ LET notification == db[id]
           times == notification.notification_times
       IN  IF times = <<>>
           THEN /\ notifications_expired' = Append(notifications_expired, id)
                /\ todo' = todo \ {id}
                /\ UNCHANGED <<db, dbLock, sent, tickSent, tpc, tend, sending>>
           ELSE IF ~due(times[1], tnow)
           THEN /\ todo' = todo \ {id}
                /\ UNCHANGED <<db, dbLock, sent, tickSent, tpc, tend, notifications_expired,
                               sending>>
           ELSE \E answer \in Formatted, delivered \in BOOLEAN :
                IF ~delivered
                THEN /\ tpc' = "sleep"
                     /\ tend' = "send_failed"
                     /\ dbLock' = "free"
                     /\ todo' = {}
                     /\ UNCHANGED <<db, sent, tickSent, notifications_expired, sending>>
                ELSE /\ sending' = Some([id |-> id, channel |-> notification.channel,
                                         time |-> times[1], answer |-> answer,
                                         body |-> build_message(notification, answer)])
                     /\ tpc' = "sent"
                     /\ UNCHANGED <<db, dbLock, sent, tickSent, tend, todo,
                                    notifications_expired>>
    /\ UNCHANGED <<utc, tnow, made, tickPre, disk>>
    /\ UNCHANGED <<engineRest, busVars, routerVars, overlapVars>>

\* After send_message has returned Ok: notification_times.remove(0), and the
\* notification is marked when nothing is left.
notification_tick_pop ==
    /\ tpc = "sent"
    /\ LET m == sending[1]
           left == pop(db[m.id].notification_times, tnow)
       IN  /\ sent' = [sent EXCEPT ![m.id] = Append(@, m.time)]
           /\ tickSent' = [tickSent EXCEPT ![m.id] = Append(@,
                    [channel |-> m.channel, time |-> m.time, answer |-> m.answer,
                     body |-> m.body])]
           /\ db' = [db EXCEPT ![m.id].notification_times = left]
           /\ notifications_expired' =
                  IF left = <<>> THEN Append(notifications_expired, m.id)
                  ELSE notifications_expired
           /\ todo' = todo \ {m.id}
    /\ sending' = None
    /\ tpc' = "scan"
    /\ UNCHANGED <<dbLock, utc, tnow, made, tickPre, tend, disk>>
    /\ UNCHANGED <<engineRest, busVars, routerVars, overlapVars>>

\* After the scan: the marked notifications are removed, save_db succeeds or
\* fails, the tick returns and the lock is released.
notification_tick_end ==
    /\ tpc = "scan"
    /\ todo = {}
    /\ db' = remove_all(db, notifications_expired)
    /\ \E saved \in BOOLEAN :
        /\ tend' = IF saved THEN "saved" ELSE "save_failed"
        /\ disk' = IF saved THEN db' ELSE disk
    /\ dbLock' = "free"
    /\ tpc' = "sleep"
    /\ notifications_expired' = <<>>
    /\ UNCHANGED <<utc, tnow, todo, made, sent, tickSent, tickPre, sending>>
    /\ UNCHANGED <<engineRest, busVars, routerVars, overlapVars>>

NextTick ==
    \/ create
    \/ \E t \in Hours : later(t)
    \/ run_notification_loop
    \/ \E id \in 1..MaxNotifications : notification_tick_visit(id)
    \/ notification_tick_pop
    \/ notification_tick_end

SpecTick == Init /\ [][NextTick]_vars

\* ------------------------------------------------- creating a notification
\* The arguments of a creation: target times for which both, one or none of
\* the subtractions underflow; one recipient, two, and a trailing comma.
Expiries == {0, 5 * Hour, Day, Day + 6 * Hour}
Contents == {<<"a">>, <<"b">>}
Recipients == {<<"@", "1">>, <<"@", "1", ",", "@", "2">>, <<"@", "1", ",">>}
Channels == {<<"7">>, <<"8">>}

\* create_reminder / create_notification called with any arguments: the
\* entity is inserted under a fresh uuid, then save_db succeeds or fails.
create_reminder ==
    /\ dbLock = "free"
    /\ made < MaxNotifications
    /\ made' = made + 1
    /\ \E content \in Contents, notify_users \in Recipients, expires_at \in Expiries,
          channel \in Channels, saved \in BOOLEAN :
        /\ db' = create_notification(db, made + 1, content, notify_users, expires_at, channel)
        /\ calls' = <<CreateCall(content, notify_users, expires_at, channel, saved)>>
        /\ disk' = IF saved THEN db' ELSE disk
    /\ UNCHANGED <<store, dbLock, pc, cur, action, pre, origin, corr>>
    /\ UNCHANGED beyondCreate

NextCreate == create_reminder

SpecCreate == Init /\ [][NextCreate]_vars

\* ------------------------------------------- overlapping handle_event calls
\* handle_event(&self, event) is called by several tasks that share the
\* engine.  The steps are cut where the Action store's lock is taken and
\* released and where the handler awaits a collaborator.
overlapRest == <<pc, cur, action, calls, pre, corr>>

\* A task calls handle_event with a request or with a guarded event for the
\* Action.
invoke(t) ==
    /\ inv[t].pc = "idle"
    /\ \E e \in AwaitedEvents \cup NotifyRequested :
        inv' = [inv EXCEPT ![t] =
                [Idle EXCEPT !.pc = IF e.type = "NotifyRequested" THEN "request" ELSE "read",
                             !.event = Some(e)]]
    /\ UNCHANGED <<store, db, dbLock, origin, storeLock>>
    /\ UNCHANGED <<overlapRest, busVars, routerVars, tickVars>>

\* NotifyRequested: the NLU collaborator's answer and its parse, the new
\* Action and the approval prompt; a failed prompt marks it Failed.
request(t) ==
    /\ inv[t].pc = "request"
    /\ \E r \in NluOutcomes, ok \in BOOLEAN, m \in MsgIds :
        LET e == inv[t].event[1]
            ai == IF r.ok THEN from_str(r.body) ELSE None
            new == NewAction(pending_id(t), e, ai[1], utc)
        IN  inv' = [inv EXCEPT ![t] =
                IF ai = None THEN Returned_from(@)
                ELSE [@ EXCEPT !.pc = "write",
                               !.action = Some(IF ok THEN prompted(new, m)
                                               ELSE [new EXCEPT !.status = "Failed"])]]
    /\ UNCHANGED <<store, db, dbLock, origin, storeLock>>
    /\ UNCHANGED <<overlapRest, busVars, routerVars, tickVars>>

\* self.store.lock().await, for the snapshot or for the write-back
store_lock(t) ==
    /\ inv[t].pc \in {"read", "write"}
    /\ storeLock = 0
    /\ storeLock' = t
    /\ inv' = [inv EXCEPT ![t].pc = IF @ = "read" THEN "reading" ELSE "writing"]
    /\ UNCHANGED <<store, db, dbLock, origin>>
    /\ UNCHANGED <<overlapRest, busVars, routerVars, tickVars>>

\* store.get(&action_id).cloned(), the guard on the store is dropped at the
\* end of the block; then the checks on the snapshot, and the status the
\* handler sets on its copy.
action_snapshot(t) ==
    /\ inv[t].pc = "reading"
    /\ storeLock' = guard_dropped(storeLock)
    /\ LET e == inv[t].event[1]
           snapshot == get(store, e.action_id)
       IN  inv' = [inv EXCEPT ![t] =
                IF ~guard(snapshot, e.user_id) THEN Returned_from(@)
                ELSE IF e.type = "ApprovalCanceled"
                THEN [@ EXCEPT !.pc = "write",
                               !.action = Some([snapshot[1] EXCEPT !.status = "Rejected"])]
                ELSE IF notification_draft(snapshot[1]) = None
                THEN IF e.type = "ContextSubmitted" THEN Returned_from(@)
                     ELSE [@ EXCEPT !.pc = "write",
                                    !.action = Some([snapshot[1] EXCEPT !.status = "Failed"])]
                ELSE IF e.type = "ContextSubmitted"
                THEN [@ EXCEPT !.pc = "refresh", !.action = snapshot]
                ELSE [@ EXCEPT !.pc = "persist",
                               !.action = Some([snapshot[1] EXCEPT !.status = "Approved"])]]
    /\ UNCHANGED <<store, db, dbLock, origin>>
    /\ UNCHANGED <<overlapRest, busVars, routerVars, tickVars>>

\* ApprovalConfirmed: notification_db.lock().await, NotificationService::create
\* and the status from its result; the guard on the notification store is
\* kept to the end of the handler.
persist(t) ==
    /\ inv[t].pc = "persist"
    /\ granted(dbLock)
    /\ dbLock' = "engine"
    /\ \E saved \in BOOLEAN :
        LET a == inv[t].action[1]
            draft == notification_draft(a)[1]
            id == new_notification_id(origin)
        IN  /\ db' = create_notification(db, id, draft.content, a.user_id, draft.time,
                                         a.channel_id)
            /\ origin' = (id :> a.id) @@ origin
            /\ inv' = [inv EXCEPT ![t] =
                    [@ EXCEPT !.pc = "write", !.db_guard = TRUE,
                              !.action = Some([a EXCEPT !.status = confirmed_status(saved)])]]
    /\ UNCHANGED <<store, storeLock>>
    /\ UNCHANGED <<overlapRest, busVars, routerVars, tickVars>>

\* ContextSubmitted: the correction by the NLU collaborator; on a parsed
\* answer the draft is overwritten and the approval prompt sent again, else
\* the handler returns.
refresh(t) ==
    /\ inv[t].pc = "refresh"
    /\ \E r \in NluOutcomes, ok \in BOOLEAN, m \in MsgIds :
        LET e == inv[t].event[1]
            a == inv[t].action[1]
            refreshed == IF r.ok THEN from_str(r.body) ELSE None
            corrected == [a EXCEPT !.payload = Some(corrected_draft(notification_draft(a)[1],
                                                        e.context, refreshed[1]))]
        IN  inv' = [inv EXCEPT ![t] =
                IF refreshed = None THEN Returned_from(@)
                ELSE [@ EXCEPT !.pc = "write",
                               !.action = Some(IF ok THEN prompted(corrected, m) ELSE corrected)]]
    /\ UNCHANGED <<store, db, dbLock, origin, storeLock>>
    /\ UNCHANGED <<overlapRest, busVars, routerVars, tickVars>>

\* store.insert(action); the handler returns and its guards are dropped.
write_back(t) ==
    /\ inv[t].pc = "writing"
    /\ store' = insert(store, inv[t].action[1])
    /\ storeLock' = 0
    /\ dbLock' = IF inv[t].db_guard THEN "free" ELSE dbLock
    /\ inv' = [inv EXCEPT ![t] = Returned_from(@)]
    /\ UNCHANGED <<db, origin>>
    /\ UNCHANGED <<overlapRest, busVars, routerVars, tickVars>>

NextOverlap ==
    \E t \in Invocations :
        \/ invoke(t)
        \/ request(t)
        \/ store_lock(t)
        \/ action_snapshot(t)
        \/ persist(t)
        \/ refresh(t)
        \/ write_back(t)

InitOverlap ==
    /\ store = insert(<<>>, Awaited)
    /\ InitBeyondStore

SpecOverlap == InitOverlap /\ [][NextOverlap]_vars

\* ------------------------------------------------ the users of the two locks
\* The tasks that call handle_event and the notification loop, side by side;
\* the clock may pass to the hour by which every time of a draft is due.
AllDue == CHOOSE t \in Targets : \A u \in Targets : u <= t

NextLocks ==
    \/ NextOverlap
    \/ later(AllDue)
    \/ run_notification_loop
    \/ \E id \in DOMAIN db : notification_tick_visit(id)
    \/ notification_tick_pop
    \/ notification_tick_end

SpecLocks == InitOverlap /\ [][NextLocks]_vars

\* The runtime polls every task that can make progress, so a handler or a
\* tick that is not waiting for a lock takes its next step (the collaborator
\* calls return); tokio's Mutex is fair, handing the lock over in the order
\* of the requests, so a task waiting for a lock that is released again and
\* again gets it.
FairSpecLocks ==
    /\ SpecLocks
    /\ \A t \in Invocations :
        /\ WF_vars(request(t))
        /\ WF_vars(action_snapshot(t))
        /\ WF_vars(refresh(t))
        /\ WF_vars(write_back(t))
        /\ SF_vars(store_lock(t))
        /\ SF_vars(persist(t))
    /\ SF_vars(run_notification_loop)
    /\ WF_vars(\E id \in DOMAIN db : notification_tick_visit(id))
    /\ WF_vars(notification_tick_pop)
    /\ WF_vars(notification_tick_end)

\* --------------------------------------------- the engine and the wall clock
\* The engine handling the guarded events for the Action made at the start,
\* whose draft's expires_at is five minutes later, while the clock passes the
\* hour.
Recv_guarded ==
    /\ Recv
    /\ cur'[1] \in AwaitedEvents

NextExpiry ==
    \/ Recv_guarded
    \/ Loop
    \/ ApprovalConfirmed_snapshot
    \/ ApprovalConfirmed_create
    \/ ApprovalConfirmed_insert
    \/ ApprovalCanceled_snapshot
    \/ ApprovalCanceled_insert
    \/ ContextSubmitted_snapshot
    \/ ContextSubmitted_generate_prompt
    \/ ContextSubmitted_prompt
    \/ ContextSubmitted_insert
    \/ later(Hour)

SpecExpiry == InitOverlap /\ [][NextExpiry]_vars

\* ==================================================================== claims
\* The event whose handling is under way or has just returned.
ev == cur[1]

Handled == pc = "done"

GuardedEvent == cur # None /\ ev.type \in {"ApprovalConfirmed", "ApprovalCanceled", "ContextSubmitted"}

\* The Action an event names, as it was stored when the event was received.
Known == ev.action_id \in DOMAIN pre.store
Target == pre.store[ev.action_id]
ByOwnerWhileAwaiting ==
    Known /\ Target.user_id = ev.user_id /\ Target.status = "AwaitingApproval"

Terminal == {"Rejected", "Completed", "Failed"}

\* The notifications ever created for an Action.
NotificationsOf(a) == {n \in DOMAIN origin : origin[n] = a}

\* ts lists, in ascending order, those of t - 1 day and t - 1 hour that are
\* representable times.
IsDueTimes(ts, t) ==
    /\ \A i \in 1..(Len(ts) - 1) : ts[i] < ts[i + 1]
    /\ {ts[i] : i \in DOMAIN ts} = {x \in {t - Day, t - Hour} : x >= 0}

\* d2 is d1 with exactly one more entry, under the key n.
AddsOne(d1, d2, n) ==
    /\ n \notin DOMAIN d1
    /\ DOMAIN d2 = DOMAIN d1 \cup {n}
    /\ \A k \in DOMAIN d1 : d2[k] = d1[k]

\* C1: the notification store differs from what it was when the event was
\* received only during the handling of an ApprovalConfirmed sent by the
\* owner of an Action that was AwaitingApproval, and then only by additions;
\* NotifyRequested, ContextSubmitted and ApprovalCanceled leave it as it was.
C1_ApprovalGate ==
    /\ db # pre.db =>
        /\ cur # None
        /\ ev.type = "ApprovalConfirmed"
        /\ ByOwnerWhileAwaiting
        /\ \A n \in DOMAIN pre.db : n \in DOMAIN db /\ db[n] = pre.db[n]
    /\ (cur # None /\ ev.type \in {"NotifyRequested", "ContextSubmitted", "ApprovalCanceled"})
        => db = pre.db

C1_Witness ==
    /\ Handled
    /\ ev.type = "ApprovalConfirmed"
    /\ DOMAIN db # DOMAIN pre.db

\* C2: a NotifyRequested whose NLU answer is valid {content, time} JSON and
\* whose approval prompt succeeds leaves the store with exactly one more
\* Action, under an id the store did not hold, every other Action untouched;
\* the new Action is AwaitingApproval, carries the event's user and channel,
\* and its draft has the NLU's content and time, the event's text as
\* original_text and no extra_context.
NotifySucceeded ==
    /\ Handled
    /\ ev.type = "NotifyRequested"
    /\ Len(calls) = 2
    /\ calls[1].call = "generate_prompt"
    /\ calls[1].returned.ok
    /\ DOMAIN calls[1].returned.body = {"content", "time"}
    /\ calls[2].call = "prompt"
    /\ calls[2].ok

C2_NotifyCreatesOneAction ==
    NotifySucceeded =>
        \E id \in DOMAIN store :
            /\ AddsOne(pre.store, store, id)
            /\ store[id].id = id
            /\ store[id].status = "AwaitingApproval"
            /\ store[id].user_id = ev.user_id
            /\ store[id].channel_id = ev.channel_id
            /\ Len(store[id].payload) = 1
            /\ store[id].payload[1].content = calls[1].returned.body.content
            /\ store[id].payload[1].time = calls[1].returned.body.time
            /\ store[id].payload[1].original_text = ev.text
            /\ store[id].payload[1].extra_context = None

C2_Witness == NotifySucceeded /\ pre.store # <<>>

\* C3: an ApprovalConfirmed, ApprovalCanceled or ContextSubmitted that names
\* no stored Action, comes from another user than the Action's, or finds the
\* Action not AwaitingApproval changes neither store and returns at once.
C3_GuardNoOp ==
    (GuardedEvent /\ ~ByOwnerWhileAwaiting) =>
        /\ store = pre.store
        /\ db = pre.db
        /\ pc \in {"start", "done"}

C3_Witness ==
    /\ Handled
    /\ GuardedEvent
    /\ ev.type = "ContextSubmitted"
    /\ Known
    /\ Target.user_id = ev.user_id
    /\ Target.status = "Completed"

\* C4: an owner's ApprovalConfirmed on an AwaitingApproval Action leaves it
\* stored as Completed or Failed; an ApprovalConfirmed on an Action already
\* Completed or Failed changes nothing; no Action ever has more than one
\* notification created for it.
C4_ConfirmOnce ==
    /\ (Handled /\ ev.type = "ApprovalConfirmed" /\ ByOwnerWhileAwaiting)
        => store[ev.action_id].status \in {"Completed", "Failed"}
    /\ (cur # None /\ ev.type = "ApprovalConfirmed" /\ Known
            /\ Target.status \in {"Completed", "Failed"})
        => (store = pre.store /\ db = pre.db)
    /\ \A a \in ActionIds : Cardinality(NotificationsOf(a)) <= 1

C4_Witness ==
    /\ Handled
    /\ ev.type = "ApprovalConfirmed"
    /\ Known
    /\ Target.user_id = ev.user_id
    /\ Target.status = "Completed"
    /\ Cardinality(NotificationsOf(ev.action_id)) = 1

\* C5: an Action that was stored when an event was received is still stored
\* at every later point of the handling, and if it was Rejected, Completed or
\* Failed its status and its draft are the same.
C5_TerminalAbsorbing ==
    \A a \in DOMAIN pre.store :
        /\ a \in DOMAIN store
        /\ pre.store[a].status \in Terminal =>
            /\ store[a].status = pre.store[a].status
            /\ store[a].payload = pre.store[a].payload

C5_Witness ==
    /\ Handled
    /\ ev.type = "ApprovalCanceled"
    /\ Known
    /\ Target.user_id = ev.user_id
    /\ Target.status = "Failed"
    /\ Cardinality(DOMAIN store) = MaxActions

\* C6: no stored Action has status Approved, in any state, the states between
\* the steps of a running handler included.
C6_ApprovedNeverStored == \A a \in DOMAIN store : store[a].status # "Approved"

C6_Witness ==
    /\ pc = "confirm_create"
    /\ action[1].status = "Approved"
    /\ store[action[1].id].status = "AwaitingApproval"

\* C7: an owner's ApprovalConfirmed on an AwaitingApproval Action whose
\* create succeeds adds exactly one notification: its content is the draft's,
\* its channel the Action's channel_id, its only recipient the Action's
\* user_id, its due-times those of the draft's time; the Action is stored as
\* Completed.
ConfirmPersisted ==
    /\ Handled
    /\ ev.type = "ApprovalConfirmed"
    /\ ByOwnerWhileAwaiting
    /\ \E i \in DOMAIN calls : calls[i].call = "create" /\ calls[i].ok

C7_ConfirmPersistsDraft ==
    ConfirmPersisted =>
        /\ store[ev.action_id].status = "Completed"
        /\ \E n \in DOMAIN db :
            /\ AddsOne(pre.db, db, n)
            /\ db[n].content = Target.payload[1].content
            /\ db[n].channel = Target.channel_id
            /\ db[n].notify = <<Target.user_id>>
            /\ IsDueTimes(db[n].notification_times, Target.payload[1].time)

C7_Witness ==
    /\ ConfirmPersisted
    /\ pre.db # <<>>
    /\ db[Cardinality(DOMAIN db)].notification_times = <<26, 49>>

\* C8: a notification created for an Action whose draft was corrected by a
\* ContextSubmitted carries the content and the due-times of the last
\* successful correction.
C8_PostCorrectionPersisted ==
    \A n \in DOMAIN origin :
        corr[origin[n]] # None =>
            /\ n \in DOMAIN db
            /\ db[n].content = corr[origin[n]][1].content
            /\ IsDueTimes(db[n].notification_times, corr[origin[n]][1].time)

C8_Witness ==
    /\ Handled
    /\ ev.type = "ApprovalConfirmed"
    /\ ByOwnerWhileAwaiting
    /\ corr[ev.action_id] # None
    /\ corr[ev.action_id][1].content # <<"a">>
    /\ NotificationsOf(ev.action_id) # {}

\* C9: an owner's ApprovalCanceled on an AwaitingApproval Action stores it as
\* Rejected and creates no notification; a Rejected Action stays Rejected;
\* no notification was ever created for a Rejected Action.
C9_CancelRejects ==
    /\ (Handled /\ ev.type = "ApprovalCanceled" /\ ByOwnerWhileAwaiting) =>
        /\ store[ev.action_id].status = "Rejected"
        /\ db = pre.db
    /\ \A a \in DOMAIN pre.store :
        pre.store[a].status = "Rejected" => store[a].status = "Rejected"
    /\ \A a \in DOMAIN store :
        store[a].status = "Rejected" => NotificationsOf(a) = {}

C9_Witness ==
    /\ Handled
    /\ ev.type = "ApprovalConfirmed"
    /\ Known
    /\ Target.user_id = ev.user_id
    /\ Target.status = "Rejected"

\* C10: a NotifyRequested whose NLU call fails, or answers something that is
\* not {content, time} JSON, creates no Action, makes exactly one status
\* message call, for the event's channel and user, and returns after that
\* one NLU call.
NotifyNluFailed ==
    /\ Handled
    /\ ev.type = "NotifyRequested"
    /\ calls # <<>>
    /\ calls[1].call = "generate_prompt"
    /\ \/ ~calls[1].returned.ok
       \/ ~({"content", "time"} \subseteq DOMAIN calls[1].returned.body)

C10_NluFailureAbandons ==
    NotifyNluFailed =>
        /\ store = pre.store
        /\ Len(calls) = 2
        /\ calls[2].call = "update_status_message"
        /\ calls[2].channel_id = ev.channel_id
        /\ calls[2].user_id = ev.user_id

C10_Witness ==
    /\ NotifyNluFailed
    /\ calls[1].returned.ok
    /\ pre.store # <<>>

\* ------------------------------------------------------------------- C11

\* C11: the consumer handles the events one at a time and in the order they
\* were enqueued: what was enqueued is, in order, what has been handled, then
\* the one event under examination, then what the buffer still holds; no
\* event is duplicated or skipped while the consumer is alive, so every
\* event enqueued before the one under examination has been handled.
C11_FifoSingleConsumer ==
    /\ Len(wcur) <= 1
    /\ wpc # "aborted" => /\ (wpc = "handle") = (wcur # None)
                          /\ enq = handled \o wcur \o queue
    /\ \A i \in DOMAIN enq : \A j \in DOMAIN enq : enq[i] = enq[j] => i = j

\* The second event of a producer is under examination after its first was
\* handled, while another event waits in the buffer behind it.
C11_Witness ==
    /\ wpc = "handle"
    /\ handled # <<>>
    /\ handled[Len(handled)].user_id = wcur[1].user_id
    /\ Len(queue) = Buffer

\* ------------------------------------------------------------------- C12
\* C12: the buffer never holds more than Buffer events; an emit suspends
\* exactly when the bus is full and its consumer alive; an emit that has
\* returned Ok put its event into the channel, one that is suspended still
\* holds its event, and an event is given up only when the Receiver is gone.
C12_BoundedLossless ==
    /\ Len(queue) <= Buffer
    /\ \A p \in Producers :
        /\ pending[p] # None => pending[p][1].full_at_call
        /\ \A k \in 1..issued[p] :
            \/ pending[p] # None /\ pending[p][1].event = Emitted(p, k)
            \/ \E r \in ret : r.event = Emitted(p, k)
    /\ \A r \in ret :
        /\ r.full_at_call /\ ~r.closed_at_call => r.suspended
        /\ r.result = "Ok" => r.event \in Range(enq)
        /\ r.result = "Err" => r.closed_at_return /\ r.event \notin Range(enq)
        /\ r.result \in {"Ok", "Err"}

\* An emit on a full bus was suspended, completed, and its event was handled.
C12_Witness ==
    \E r \in ret : r.full_at_call /\ r.suspended /\ r.result = "Ok"
                    /\ r.event \in Range(handled)

\* ------------------------------------------------------------------- C13
\* C13: the consumer loop ends only when every Sender is dropped and the
\* buffer is empty, having handled, in order, every event that was enqueued;
\* and once every Sender is dropped the loop does end.
C13_DrainThenExit ==
    /\ [](wpc = "exited" => tx = {} /\ queue = <<>> /\ wcur = None /\ handled = enq)
    /\ ((tx = {} /\ wpc # "aborted") ~> (wpc \in {"exited", "aborted"}))

\* The loop has ended after the last Sender was dropped with two events
\* still unhandled.
C13_Witness == wpc = "exited" /\ backlog = Some(2) /\ handled = enq

\* ------------------------------------------------------------------- C14
\* C14: an emit called after the Receiver was dropped never suspends; it
\* returns with the send error swallowed, and its event is in no buffer and
\* reaches no handler.
C14_EmitAfterShutdown ==
    /\ \A p \in Producers : pending[p] # None => ~pending[p][1].closed_at_call
    /\ \A r \in ret : r.closed_at_call =>
        /\ ~r.suspended
        /\ r.result = "Err"
        /\ r.event \notin Range(enq) \cup Range(queue) \cup Range(handled) \cup Range(wcur)

\* An emit called after the consumer was cancelled has returned.
C14_Witness == \E r \in ret : r.closed_at_call /\ wpc = "aborted"

\* ------------------------------------------------------------------- C15
\* The last route_notify call.
call == routed[1]
\* The session the call found under its key was stored and not expired.
Live == call.key \in DOMAIN call.before
        /\ call.now - call.before[call.key].last_prompt_at <= SessionWindow
Found == call.before[call.key]
Merged == Found.original_text \o <<" ">> \o call.text

\* C15: the classifier is asked about original_text + " " + text exactly
\* when an unexpired session in state Unknown is stored under the same key;
\* with no session, or a live one in PendingNotification, it is asked about
\* the new text unchanged.
C15_MergeIffLiveUnknown ==
    routed # None =>
        IF Live /\ Found.state = "Unknown"
        THEN call.asked = Merged /\ call.asked # call.text
        ELSE call.asked = call.text

\* A follow-up with another text was merged with a live Unknown session.
C15_Witness ==
    /\ routed # None
    /\ Live
    /\ Found.state = "Unknown"
    /\ call.asked = Merged
    /\ call.text # Found.original_text

\* ------------------------------------------------------------------- C16
Age == call.now - Found.last_prompt_at

\* C16: a stored session older than five minutes is not read: the follow-up
\* is classified on its own text; a session exactly five minutes old is live
\* and, in state Unknown, merges.
C16_SessionExpiry ==
    routed # None /\ call.key \in DOMAIN call.before =>
        /\ Age > SessionWindow => call.asked = call.text
        /\ Age = SessionWindow /\ Found.state = "Unknown" => call.asked = Merged

\* A follow-up exactly five minutes after an Unknown session was merged.
C16_Witness ==
    /\ routed # None
    /\ call.key \in DOMAIN call.before
    /\ Age = SessionWindow
    /\ Found.state = "Unknown"
    /\ call.asked = Merged

Of(s, k) == SelectSeq(s, LAMBDA e : e.user_id = k[1] /\ e.channel_id = k[2])
\* The event the handler of key k is about to emit.
InFlight(k) ==
    IF handler[k] # None /\ handler[k][1].pc = "emit" THEN <<handler[k][1].event>> ELSE <<>>

\* C18: the request handler gives the bus one NotifyRequested, with the
\* normalized text, the user and the channel, for each EmitNotify decision
\* and nothing for a NeedClarification.
C18_OneEventPerEmitNotify ==
    /\ \A k \in SessionKeys : Of(decisions, k) = Of(emitted, k) \o InFlight(k)
    /\ \A i \in DOMAIN emitted :
        /\ emitted[i].type = "NotifyRequested"
        /\ <<emitted[i].user_id, emitted[i].channel_id>> \in SessionKeys

\* An ambiguous message and a resolving follow-up within the window have
\* been handled: one event was emitted, with the merged text.
C18_Witness ==
    /\ routed # None
    /\ requests = 2
    /\ Live
    /\ Found.state = "Unknown"
    /\ call.decision.type = "EmitNotify"
    /\ handler[call.key] = None
    /\ Of(emitted, call.key) =
         <<[type |-> "NotifyRequested", text |-> trim(call.asked),
            user_id |-> call.key[1], channel_id |-> call.key[2]]>>

\* ------------------------------------------------------------------- C19
\* The last tick ran to its end: no send of it failed.
Completed == tpc = "sleep" /\ tend \in {"saved", "save_failed"}
AllOverdue(times) == times # <<>> /\ \A i \in DOMAIN times : times[i] < tnow

C20_FiresAtOrBeforeNow ==
    Completed =>
        \A n \in DOMAIN tickPre :
            LET before == tickPre[n].notification_times
            IN  before # <<>> /\ before[1] <= tnow =>
                    /\ Len(tickSent[n]) = 1
                    /\ tickSent[n][1].time = before[1]
                    /\ n \in DOMAIN db => db[n].notification_times = Tail(before)

\* ------------------------------------------------------------------- C21
\* C21: when a tick has ended, however it ended, no stored notification has
\* an empty notification_times list: one whose last time the tick popped and
\* one the tick found already empty are both gone from the store.
C21_NoEmptyLeftAfterTick ==
    tpc = "sleep" /\ tend # "none" =>
        \A n \in DOMAIN db : db[n].notification_times # <<>>

\* ------------------------------------------------------------------- C22
Ascending(times) == \A i, j \in DOMAIN times : i < j => times[i] <= times[j]

\* A step leaves the list of a notification that stays in the store as it
\* was, or removes its first element.
FrontPopped(before, after) ==
    \/ after = before
    \/ before # <<>> /\ after = Tail(before)

\* C22: the notification_times of every stored notification is sorted
\* ascending in every reachable state, and no step of creations and ticks
\* changes the list of a notification that stays stored other than by
\* removing its first element.
C22_SortedFrontPopped ==
    /\ [](\A n \in DOMAIN db : Ascending(db[n].notification_times))
    /\ [][\A n \in DOMAIN db \cap DOMAIN db' :
            FrontPopped(db[n].notification_times, db'[n].notification_times)]_vars

\* A tick under way has sent and removed the day-before time of one
\* notification, which keeps its hour-before time, while another still has
\* both of its times in order.
C22_Witness ==
    /\ tpc = "scan"
    /\ \E n \in DOMAIN db : \E m \in DOMAIN db :
        /\ Len(tickPre[n].notification_times) = 2
        /\ Len(tickSent[n]) = 1
        /\ db[n].notification_times = Tail(tickPre[n].notification_times)
        /\ tickSent[n][1].time < db[n].notification_times[1]
        /\ Len(db[m].notification_times) = 2
        /\ db[m].notification_times[1] < db[m].notification_times[2]

\* ------------------------------------------------------------------- C23
\* The creation that has just returned, and the entity it stored.
created == calls[1]
stored == db[made]

\* The pieces of a split, put together again with commas between them.
RECURSIVE Joined(_)
Joined(pieces) ==
    IF Len(pieces) = 1 THEN pieces[1]
    ELSE pieces[1] \o <<",">> \o Joined(Tail(pieces))

\* C23: a creation with target time E stores an entity whose
\* notification_times is E - 1 day followed by E - 1 hour, each present
\* exactly when it is not before the earliest representable time, with the
\* content and channel given and with the recipients string cut at its
\* commas into a list.
C23_CreateStoresDueTimes ==
    made > 0 =>
        LET E == created.expires_at
        IN  /\ stored.notification_times =
                   (IF E - Day >= 0 THEN <<E - Day>> ELSE <<>>) \o
                   (IF E - Hour >= 0 THEN <<E - Hour>> ELSE <<>>)
            /\ stored.content = created.content
            /\ stored.channel = created.channel
            /\ stored.notify # <<>>
            /\ Joined(stored.notify) = created.notify_users
            /\ \A i \in DOMAIN stored.notify : "," \notin Range(stored.notify[i])

\* A creation for two recipients whose target time is a day and six hours
\* after the earliest time stored both due-times, the day-before one first.
C23_Witness ==
    /\ made > 0
    /\ created.expires_at = Day + 6 * Hour
    /\ stored.notification_times = <<6 * Hour, Day + 5 * Hour>>
    /\ stored.notify = <<<<"@", "1">>, <<"@", "2">>>>

\* ------------------------------------------------------------------- C24
\* C24: a creation stores no due-time that lies before the moment of the
\* creation: every time in the list of a notification a step adds to the
\* store is at or after the clock's reading at that step.
C24_OnlyFutureDueTimesStored ==
    [][\A n \in DOMAIN db' \ DOMAIN db :
          \A i \in DOMAIN db'[n].notification_times :
              ~(db'[n].notification_times[i] < utc)]_vars

\* ------------------------------------------------------------------- C26
\* The NLU call of a ContextSubmitted that passed the guard, and whether its
\* answer parsed.
Correction == calls[1].returned
Parsed(r) == r.ok /\ {"content", "time"} \subseteq DOMAIN r.body
ContextPassedGuard ==
    /\ Handled
    /\ ev.type = "ContextSubmitted"
    /\ ByOwnerWhileAwaiting
Prompts == {i \in DOMAIN calls : calls[i].call = "prompt"}

\* C26: after an owner's ContextSubmitted on an AwaitingApproval Action whose
\* NLU correction returned a parsable answer, the stored draft has the
\* answer's content and time, its extra_context is the trimmed context when
\* that is non-empty and what it was otherwise, the approval prompt was
\* invoked exactly once, and the stored Action is AwaitingApproval.
C26_CorrectionOverwritesDraft ==
    ContextPassedGuard /\ Parsed(Correction) =>
        LET was == Target.payload[1]
            now == store[ev.action_id].payload[1]
        IN  /\ now.content = Correction.body.content
            /\ now.time = Correction.body.time
            /\ now.extra_context =
                    IF trim(ev.context) # <<>> THEN Some(trim(ev.context))
                    ELSE was.extra_context
            /\ now.original_text = was.original_text
            /\ Cardinality(Prompts) = 1
            /\ store[ev.action_id].status = "AwaitingApproval"

\* A correction with a note between blanks changed the content from "a" to
\* "b" and recorded the note without the blanks.
C26_Witness ==
    /\ ContextPassedGuard
    /\ Parsed(Correction)
    /\ ev.context = <<" ", "x", " ">>
    /\ Target.payload[1].content = <<"a">>
    /\ store[ev.action_id].payload[1].content = <<"b">>
    /\ store[ev.action_id].payload[1].extra_context = Some(<<"x">>)

\* ------------------------------------------------------------------- C27
\* C27: after an owner's ContextSubmitted on an AwaitingApproval Action whose
\* NLU correction failed or returned an unparsable answer, the stored draft
\* has the content and time it had, the Action is AwaitingApproval, and an
\* ApprovalConfirmed by the owner coming next passes the guard and hands the
\* old content and time to the creation of the notification.
C27_SoftFailKeepsDraft ==
    ContextPassedGuard /\ ~Parsed(Correction) =>
        LET was == Target.payload[1]
            kept == store[ev.action_id]
            confirmed == [kept EXCEPT !.status = "Approved"]
        IN  /\ kept.payload[1].content = was.content
            /\ kept.payload[1].time = was.time
            /\ kept.status = "AwaitingApproval"
            /\ guard(get(store, ev.action_id), Target.user_id)
            /\ notification_draft(confirmed) # None
            /\ notification_draft(confirmed)[1].content = was.content
            /\ notification_draft(confirmed)[1].time = was.time

\* A correction note was handled whose NLU answer is JSON without the time:
\* the never-corrected draft keeps its time.
C27_Witness ==
    /\ ContextPassedGuard
    /\ Correction.ok
    /\ ~Parsed(Correction)
    /\ "content" \in DOMAIN Correction.body
    /\ ev.context = <<" ", "x", " ">>
    /\ store[ev.action_id].payload[1].time = 30
    /\ corr[ev.action_id] = None

\* ------------------------------------------------------------------- C28
\* C28: after a ContextSubmitted with a non-blank context that passed the
\* guard, whether its NLU correction succeeded or failed, the stored draft's
\* extra_context is the trimmed context and the approval prompt was invoked
\* again.
C28_ContextRecordedRegardless ==
    ContextPassedGuard /\ trim(ev.context) # <<>> =>
        /\ store[ev.action_id].payload[1].extra_context = Some(trim(ev.context))
        /\ Prompts # {}

\* ------------------------------------------------------------------- C29
\* The handling of a NotifyRequested whose NLU answer parsed and whose
\* approval prompt failed has returned.
NotifyPromptFailed ==
    /\ Handled
    /\ ev.type = "NotifyRequested"
    /\ Parsed(calls[1].returned)
    /\ \E i \in DOMAIN calls : calls[i].call = "prompt" /\ ~calls[i].ok

\* The Actions whose approval prompt never went out: no message is recorded
\* in their draft.
Unprompted(s) == {a \in DOMAIN s : s[a].payload[1].message_id = None}

\* C29: a NotifyRequested whose NLU answer parsed and whose approval prompt
\* failed stores a new Action with status Failed; such an Action is Failed
\* in every state, no notification is ever created for it, and the handling
\* of any ApprovalConfirmed, ApprovalCanceled or ContextSubmitted for it
\* calls no collaborator and leaves it and the notification store as they
\* were.
C29_PromptFailureStoresFailed ==
    /\ NotifyPromptFailed =>
        LET id == new_action_id(pre.store)
        IN  /\ AddsOne(pre.store, store, id)
            /\ store[id].status = "Failed"
            /\ id \in Unprompted(store)
    /\ \A a \in Unprompted(store) :
        /\ store[a].status = "Failed"
        /\ NotificationsOf(a) = {}
    /\ (GuardedEvent /\ ev.action_id \in Unprompted(pre.store)) =>
        /\ store = pre.store
        /\ db = pre.db
        /\ calls = <<>>

\* The owner's confirmation of an Action whose prompt had failed has been
\* handled.
C29_Witness ==
    /\ Handled
    /\ ev.type = "ApprovalConfirmed"
    /\ ev.action_id \in Unprompted(pre.store)
    /\ ev.user_id = pre.store[ev.action_id].user_id
    /\ store[ev.action_id].status = "Failed"

\* ------------------------------------------------------------------- C30
\* The handling of an owner's ApprovalConfirmed on an AwaitingApproval Action
\* has returned, and the Action had no draft or the creation returned an
\* error.
ConfirmFailed ==
    /\ Handled
    /\ ev.type = "ApprovalConfirmed"
    /\ ByOwnerWhileAwaiting
    /\ \/ Target.payload = None
       \/ \E i \in DOMAIN calls : calls[i].call = "create" /\ ~calls[i].ok

\* The status messages of the handling under way, of either kind.
StatusMessages ==
    {i \in DOMAIN calls : calls[i].call \in {"update_status", "update_status_message"}}

\* C30: after an owner's ApprovalConfirmed for which the creation of the
\* notification returned an error, or whose Action has no notification
\* draft, the Action is in the store with status Failed and exactly one
\* status message was sent, the failure message to the Action's channel and
\* user.
C30_ConfirmFailureStoresFailed ==
    ConfirmFailed =>
        /\ ev.action_id \in DOMAIN store
        /\ store[ev.action_id].status = "Failed"
        /\ DOMAIN store = DOMAIN pre.store
        /\ Cardinality(StatusMessages) = 1
        /\ \A i \in StatusMessages :
            calls[i] = UpdateStatusMessageCall(Target.channel_id, Target.user_id,
                                               <<"Failed to persist notification.">>)

\* The confirmation of an Action with a draft failed at the creation, after
\* the confirmation of the Action without a draft had failed.
C30_Witness ==
    /\ ConfirmFailed
    /\ Target.payload # None
    /\ \E a \in DOMAIN store :
        /\ store[a].payload = None
        /\ store[a].status = "Failed"

\* ------------------------------------------------------------------- C25
\* The invocation, of a guarded event, has read the Action and passed the
\* guard, and has not yet written the Action back.
PastGuard(t) ==
    /\ inv[t].pc \in {"persist", "refresh", "write", "writing"}
    /\ inv[t].event[1] \in AwaitedEvents

\* C25: from its read of the Action to its write-back an invocation holds
\* the Action store's lock, and no two invocations for the same action id
\* are past the guard at once.
C25_ReadModifyWriteAtomic ==
    /\ \A t \in Invocations : PastGuard(t) => storeLock = t
    /\ \A t, u \in Invocations :
        (t # u /\ PastGuard(t) /\ PastGuard(u)) =>
            inv[t].event[1].action_id # inv[u].event[1].action_id

\* ------------------------------------------------------------------- C31
\* The last tick ran to its end and its save_db failed.
SaveFailed == tpc = "sleep" /\ tend = "save_failed"

\* What a tick that sent msgs for a notification leaves of its times.
LeftBy(before, msgs) == IF msgs # <<>> THEN Tail(before) ELSE before

\* C31: when the save at the end of a tick has failed, the store in memory
\* has every pop and every deletion of that tick, the loop is back at its
\* sleep with the lock released, so that the next tick can start; and in
\* every state no time is sent twice for a notification and no time already
\* sent is still in its list to be sent by a later tick.
C31_SaveFailureKeepsPops ==
    /\ SaveFailed =>
        /\ dbLock = "free"
        /\ \A n \in DOMAIN tickPre :
            LET left == LeftBy(tickPre[n].notification_times, tickSent[n])
            IN  IF left = <<>> THEN n \notin DOMAIN db
                ELSE n \in DOMAIN db /\ db[n].notification_times = left
    /\ \A n \in 1..MaxNotifications :
        /\ \A i, j \in DOMAIN sent[n] : i # j => sent[n][i] # sent[n][j]
        /\ n \in DOMAIN db => Range(sent[n]) \cap Range(db[n].notification_times) = {}

\* No save has succeeded since a notification was created and the last one
\* failed: the file still has both of its times, while its two messages
\* were sent, once each, in two ticks and the store in memory no longer
\* holds it.
C31_Witness ==
    /\ SaveFailed
    /\ \E n \in DOMAIN disk :
        /\ Len(disk[n].notification_times) = 2
        /\ Len(sent[n]) = 2
        /\ Len(tickSent[n]) = 1
        /\ n \notin DOMAIN db

\* ------------------------------------------------------------------- C32
\* The formatter gave nothing to send: an error, or a blank body.
Unusable(answer) == ~answer.ok \/ trim(answer.body) = <<>>

\* C32: a message whose formatter call failed or returned a blank body is
\* sent with the text "Notification: {content} at {event_time}", event_time
\* being the last of the notification's times, one sent after a usable
\* answer has that answer as its text, and in both cases the first time of
\* the notification has been removed; a tick that runs to its end has sent a
\* message for every notification that was due, whatever the formatter
\* answered.
C32_FormatterFailureFallsBack ==
    \A n \in DOMAIN tickPre :
        LET before == tickPre[n]
            times == before.notification_times
        IN  /\ \A i \in DOMAIN tickSent[n] :
                LET m == tickSent[n][i]
                IN  /\ m.body = IF Unusable(m.answer)
                                THEN <<"Notification: ", before.content, " at ",
                                       times[Len(times)]>>
                                ELSE m.answer.body
                    /\ n \in DOMAIN db => db[n].notification_times = Tail(times)
                    /\ n \notin DOMAIN db => Tail(times) = <<>>
            /\ (Completed /\ times # <<>> /\ due(times[1], tnow)) => Len(tickSent[n]) = 1

\* In one tick that ran to its end, the formatter failed for a notification
\* with two times left and returned a blank body for another one: both got
\* the fallback text and lost their first time.
C32_Witness ==
    /\ Completed
    /\ \E n \in DOMAIN tickPre : \E k \in DOMAIN tickPre :
        /\ Len(tickPre[n].notification_times) = 2
        /\ Len(tickSent[n]) = 1
        /\ ~tickSent[n][1].answer.ok
        /\ tickSent[n][1].body[1] = "Notification: "
        /\ Len(db[n].notification_times) = 1
        /\ Len(tickSent[k]) = 1
        /\ tickSent[k][1].answer.ok
        /\ Unusable(tickSent[k][1].answer)
        /\ tickSent[k][1].body[1] = "Notification: "

\* A tick is under way: the scheduler is between db.lock().await and the
\* return of notification_tick.
InTick == tpc # "sleep"

\* The step is a creation: one more notification has been made.
Creation == made' = made + 1

\* C33: the scheduler holds the notification store's lock for the whole tick,
\* so a tick and a creation never interleave: while a tick is under way the
\* lock is the scheduler's, the store holds no notification the tick did not
\* find when it took the lock, and every notification the tick has yet to
\* visit is as the tick found it, its list of times whole; a creation happens
\* only between ticks, when no sent time is waiting to be popped, and it
\* changes no notification that was there.
C33_TickAndCreationNeverInterleave ==
    /\ [](InTick =>
            /\ dbLock = "scheduler"
            /\ DOMAIN db \subseteq DOMAIN tickPre
            /\ \A n \in todo : n \in DOMAIN db /\ db[n] = tickPre[n])
    /\ [](sending # None => InTick)
    /\ [][Creation =>
            /\ ~InTick /\ sending = None
            /\ \A n \in DOMAIN db : n \in DOMAIN db' /\ db'[n] = db[n]]_vars

\* A notification was created after an earlier tick had finished, a later
\* tick found it with both its times, has sent the first and is about to pop
\* it, holding the lock.
C33_Witness ==
    /\ tpc = "sent"
    /\ dbLock = "scheduler"
    /\ made = 2
    /\ 1 \notin DOMAIN db
    /\ sending # None
    /\ sending[1].id = 2
    /\ Len(tickPre[2].notification_times) = 2
    /\ db[2] = tickPre[2]

\* ------------------------------------------------------------------- C34
\* The invocation is at a collaborator call: the NLU, the approval prompt,
\* the status message or the persistence of the notification.
AtCollaborator(t) == inv[t].pc \in {"request", "persist", "refresh"}

\* The invocation takes a step.
Steps(t) == inv'[t] # inv[t]

\* C34: the Action store's lock is never held while a collaborator call is in
\* progress: its holder is at the read or at the write of the record, no
\* invocation is at a collaborator call while holding it, and the step its
\* holder takes reads the store or inserts the holder's Action, touches
\* neither the notification store nor any collaborator, and frees the lock.
C34_NoCollaboratorCallUnderStoreLock ==
    /\ [](\A t \in Invocations :
            /\ storeLock = t => inv[t].pc \in {"reading", "writing"}
            /\ AtCollaborator(t) => storeLock # t)
    /\ [][\A t \in Invocations :
            (storeLock = t /\ Steps(t)) =>
                /\ storeLock' = 0
                /\ db' = db /\ origin' = origin
                /\ store' = IF inv[t].pc = "reading" THEN store
                            ELSE insert(store, inv[t].action[1])]_vars

\* One invocation is waiting at the persistence collaborator's result with
\* the notification store locked and the Action store free, while another
\* holds the Action store's lock for its write.
C34_Witness ==
    \E t, u \in Invocations :
        /\ inv[t].pc = "write" /\ inv[t].db_guard
        /\ inv[u].pc = "writing" /\ storeLock = u

\* ------------------------------------------------------------------- C35
\* The instant t, on the hour, is later than the instant e = <<hours, minutes>>.
later_than(t, e) == t > e[1] \/ (t = e[1] /\ 0 > e[2])

\* The event was received later than the expires_at of the Action's draft.
Expired ==
    /\ Target.payload # None
    /\ later_than(pre.now, Target.payload[1].expires_at)

\* The owner's ApprovalConfirmed or ApprovalCanceled on an AwaitingApproval
\* Action with a draft has been handled.
Decided ==
    /\ Handled
    /\ ev.type \in {"ApprovalConfirmed", "ApprovalCanceled"}
    /\ ByOwnerWhileAwaiting
    /\ Target.payload # None

\* What the handling of a decision leaves, by the event and the answer of
\* the persistence collaborator alone: a cancel stores Rejected and creates
\* nothing; a confirm calls create once with the draft, the store gets the
\* draft's notification, and the status follows the call's result.
Processed ==
    IF ev.type = "ApprovalCanceled"
    THEN /\ store[ev.action_id] = [Target EXCEPT !.status = "Rejected"]
         /\ db = pre.db
         /\ \A i \in DOMAIN calls : calls[i].call # "create"
    ELSE /\ \E i \in DOMAIN calls :
            /\ calls[i].call = "create"
            /\ calls[i].content = Target.payload[1].content
            /\ calls[i].expires_at = Target.payload[1].time
            /\ store[ev.action_id] =
                    [Target EXCEPT !.status = IF calls[i].ok THEN "Completed" ELSE "Failed"]
         /\ \E n \in DOMAIN db :
            /\ AddsOne(pre.db, db, n)
            /\ db[n].content = Target.payload[1].content
            /\ IsDueTimes(db[n].notification_times, Target.payload[1].time)

\* C35: the engine does not enforce approval expiry: an owner's
\* ApprovalConfirmed or ApprovalCanceled on an AwaitingApproval Action is
\* processed in the same way whether it is received before or after the
\* draft's expires_at, the notification being persisted on a confirm; and
\* expires_at stays what it was at creation.
C35_ExpiryNotEnforced ==
    /\ Decided => Processed
    /\ \A a \in DOMAIN store :
        store[a].payload # None =>
            store[a].payload[1].expires_at = plus_minutes(0, ApprovalMinutes)

\* A confirm received after the draft expired has been handled: the Action
\* is Completed and its notification is in the store.
C35_Witness ==
    /\ Decided
    /\ Expired
    /\ ev.type = "ApprovalConfirmed"
    /\ store[ev.action_id].status = "Completed"
    /\ NotificationsOf(ev.action_id) # {}

\* ------------------------------------------------------------------- C36
\* The fields of an Action that a correction may change, blanked.
Uncorrected(a) ==
    IF a.payload = None THEN a
    ELSE [a EXCEPT !.payload = Some([@[1] EXCEPT !.content = <<>>, !.time = 0,
                                                 !.extra_context = None,
                                                 !.message_id = None])]

\* The status of an Action, blanked.
Unsettled(a) == [a EXCEPT !.status = "Pending"]

\* C36: every stored Action is kept, under its own id, and no step changes
\* its id, user_id, channel_id or its draft's original_text; the handling of
\* a ContextSubmitted changes of an Action nothing but the draft's content,
\* time, extra_context and message_id, and the handling of an
\* ApprovalConfirmed or ApprovalCanceled nothing but the status.
C36_IdentityFieldsFrozen ==
    /\ [](\A a \in DOMAIN store : store[a].id = a)
    /\ [][\A a \in DOMAIN store :
            /\ a \in DOMAIN store'
            /\ store'[a].id = store[a].id
            /\ store'[a].user_id = store[a].user_id
            /\ store'[a].channel_id = store[a].channel_id
            /\ (store[a].payload = None) = (store'[a].payload = None)
            /\ store[a].payload # None =>
                    store'[a].payload[1].original_text = store[a].payload[1].original_text
            /\ store'[a] # store[a] =>
                    IF ev.type = "ContextSubmitted"
                    THEN Uncorrected(store'[a]) = Uncorrected(store[a])
                    ELSE /\ ev.type \in {"ApprovalConfirmed", "ApprovalCanceled"}
                         /\ Unsettled(store'[a]) = Unsettled(store[a])]_vars

\* An Action was corrected with a note, prompted again and then confirmed:
\* it is Completed with the corrected content and the request's text.
C36_Witness ==
    /\ Handled
    /\ ev.type = "ApprovalConfirmed"
    /\ ByOwnerWhileAwaiting
    /\ corr[ev.action_id] # None
    /\ store[ev.action_id].status = "Completed"
    /\ store[ev.action_id].payload[1].extra_context # None
    /\ store[ev.action_id].payload[1].content # <<"a">>
    /\ store[ev.action_id].payload[1].original_text = <<"r">>

\* ------------------------------------------------------------------- C37
\* C37: when the persistence collaborator has reported failure during an
\* ApprovalConfirmed and the Action is stored as Failed, the notification
\* store in memory is what it was when the event was received, and it holds
\* no notification created for an Action whose status is Failed.
C37_FailedConfirmStoresNothing ==
    /\ (ConfirmFailed /\ Target.payload # None) => db = pre.db
    /\ \A a \in DOMAIN store :
        store[a].status = "Failed" => NotificationsOf(a) \cap DOMAIN db = {}

\* ------------------------------------------------------------------- C38
\* The last tick ended at a send that failed.
SendFailed == tpc = "sleep" /\ tend = "send_failed"

\* C38: when a tick has ended at a failed send, every notification for which
\* the tick sent nothing is as the tick found it, the unsent time still
\* first in its list; and the store is one a completed tick could have left:
\* none of the notifications the tick found remains with an empty list, and,
\* nothing having been created since, a file that matched the store when the
\* tick began matches it again, the tick's pops written.
C38_SendFailureLeavesTickState ==
    SendFailed =>
        /\ \A n \in DOMAIN tickPre :
            (tickSent[n] = <<>> /\ tickPre[n].notification_times # <<>>) =>
                n \in DOMAIN db /\ db[n] = tickPre[n]
        /\ \A n \in DOMAIN tickPre \cap DOMAIN db : db[n].notification_times # <<>>
        /\ (disk = tickPre /\ DOMAIN db \subseteq DOMAIN tickPre) => disk = db

\* ------------------------------------------------------------------- C39
\* The notification's earliest time is not due at the tick's now.
NotDue(times) == times # <<>> /\ ~(times[1] < tnow)

\* C39: the times sent for a notification since the start are strictly
\* ascending, so none is sent twice and they go out in the order of their
\* times; no message of a tick is for a time later than the tick's now; and a
\* notification whose earliest time is not due is, during and after the
\* tick, as the tick found it, nothing being sent for it.
C39_OnceAscendingNotEarly ==
    /\ \A n \in 1..MaxNotifications :
        /\ \A i, j \in DOMAIN sent[n] : i < j => sent[n][i] < sent[n][j]
        /\ \A i \in DOMAIN tickSent[n] : tickSent[n][i].time <= tnow
    /\ sending # None => sending[1].time <= tnow
    /\ \A n \in DOMAIN tickPre :
        NotDue(tickPre[n].notification_times) =>
            /\ tickSent[n] = <<>>
            /\ n \in DOMAIN db
            /\ db[n] = tickPre[n]

\* A notification got its two messages in two ticks, the earlier time
\* first, and the last tick, now complete, left alone another whose
\* earliest time was not due.
C39_Witness ==
    /\ Completed
    /\ \E n \in 1..MaxNotifications : \E m \in DOMAIN tickPre :
        /\ Len(sent[n]) = 2
        /\ sent[n][1] < sent[n][2]
        /\ Len(tickSent[n]) = 1
        /\ NotDue(tickPre[m].notification_times)
        /\ tickSent[m] = <<>>
        /\ db[m] = tickPre[m]

\* ------------------------------------------------------------------- C40
\* The invocation waits for the notification store's lock.
WaitsForDb(t) == inv[t].pc = "persist"

\* handle_event was called and has not returned.
UnderWay(t) == inv[t].pc \notin {"idle", "returned"}

\* The holders of the notification store's lock.
DbHolders == {t \in Invocations : inv[t].db_guard} \cup (IF InTick THEN {"scheduler"} ELSE {})

\* C40: the users of the two locks cannot deadlock.  No task waits for the
\* notification store's lock while holding the Action store's; an invocation
\* holding the notification store's lock has only its write-back left and
\* takes the Action store's lock for it; the locks have one holder at most;
\* and every request is granted in the end: an invocation under way, which
\* returns only after each lock it asks for was granted, does return, and
\* the notification loop gets its lock again and again.
C40_NoDeadlock ==
    /\ [](\A t \in Invocations :
            /\ WaitsForDb(t) => storeLock # t
            /\ inv[t].db_guard => inv[t].pc \in {"write", "writing"}
            /\ storeLock = t => inv[t].pc \in {"reading", "writing"})
    /\ [](/\ Cardinality(DbHolders) <= 1
          /\ (dbLock = "free") = (DbHolders = {})
          /\ (dbLock = "scheduler") = InTick)
    /\ \A t \in Invocations : UnderWay(t) ~> inv[t].pc = "returned"
    /\ []<>InTick

\* An invocation holds the notification store's lock and, still holding it,
\* the Action store's lock, while another invocation and the notification
\* loop wait for the notification store's.
C40_Witness ==
    \E t, u \in Invocations :
        /\ inv[t].db_guard /\ storeLock = t
        /\ WaitsForDb(u)
        /\ ~InTick
        /\ db # <<>>
====
